---- MODULE Spec2Model ----
(***************************************************************************)
(* MagiCAM receiver (src/maya/maya_receiver.py): packet validation, rate   *)
(* limiting and batching, the smoothing strategies, the interpolation      *)
(* thread and the calibration offset, as a state machine over the module   *)
(* globals of the receiver.                                                *)
(*                                                                         *)
(* Numbers.  Python floats are modelled at unit precision: every float the *)
(* model handles is an integer (centimetres for translations, plain units  *)
(* for rotation entries and quaternion components), and a result that is   *)
(* not an integer is rounded to the nearest integer.  Time is counted in    *)
(* ticks of 1/TICKS_PER_SECOND seconds.  A matrix is the row-major list of *)
(* 16 entries of the source; Python index i is At(m, i).  None is <<>>.    *)
(***************************************************************************)
EXTENDS Integers, Sequences, FiniteSets, TLC

(* ------------------------------ bounds --------------------------------- *)
\* clock value when the module is loaded (time.time() is far from 0.0)
Epoch == 4
\* how many ticks the clock may advance in a behaviour
TimeSpan == 2
\* cap of the received / dropped counters
MaxFrames == 2
\* datagrams the socket buffer holds
MaxQueue == 2
\* largest "max batch" the UI field is set to
MaxBatchCfg == 2
\* interpolation threads alive at a time
MaxThreads == 2
\* times the server is started in a behaviour
MaxSessions == 2
\* largest magnitude of a matrix entry the session holds
MaxCoord == 3
MaxUpdates == 3

(* -------------------------- program constants -------------------------- *)
\* MIN_UPDATE_INTERVAL = 1.0 / 60.0 seconds = 2 ticks of 1/120 s
TICKS_PER_SECOND == 120
MIN_UPDATE_INTERVAL_INIT == 2
MAX_BATCH_READ_INIT == 1
MAX_TRANSLATION == 10000
\* SMOOTH_ALPHA = 0.25, POS_ALPHA = ROT_ALPHA = 0.8, as fractions <<num, den>>
SMOOTH_ALPHA == <<1, 4>>
POS_ALPHA == <<4, 5>>
ROT_ALPHA == <<4, 5>>
MAX_ROTATION_DELTA_DEG == 180
\* AlphaBetaFilter(alpha=0.85, beta=0.005)
FILTER_ALPHA == <<17, 20>>
FILTER_BETA == <<1, 200>>
\* AlphaBetaFilter.last_t = None
NoTime == -1
\* dt = max(1e-6, now - self.last_t): one microsecond, as a fraction of a second
MICRO == 1000000

\* A Python int has no width, a float has: an int above the float range
\* converts to no float (OverflowError).  The range is scaled down with the
\* rest of the numbers: HugeInt is an int that converts, FloatRange the largest
\* that does; the sum of three HugeInt is above it.
HugeInt == 100 * MAX_TRANSLATION
FloatRange == 2 * HugeInt

None == <<>>
Modes == {"none", "matrix_exp", "matrix_interp", "alpha_beta", "kalman"}

(* ------------------------------ numbers -------------------------------- *)
Abs(x) == IF x < 0 THEN -x ELSE x
Max2(a, b) == IF a > b THEN a ELSE b
Min2(a, b) == IF a < b THEN a ELSE b
\* float division a / b, rounded to the nearest unit (halves away from zero)
Quot(a, b) ==
    LET q == (2 * Abs(a) + Abs(b)) \div (2 * Abs(b))
    IN  IF (a < 0) = (b < 0) THEN q ELSE -q
\* f * x for a fraction f = <<num, den>>
Frac(f, x) == Quot(f[1] * x, f[2])
\* math.sqrt, rounded down
Sqrt(x) == CHOOSE r \in 0..(x + 1) : r * r <= x /\ (r + 1) * (r + 1) > x

(* ------------------------------ matrices ------------------------------- *)
At(m, i) == m[i + 1]
Identity == <<1, 0, 0, 0,  0, 1, 0, 0,  0, 0, 1, 0,  0, 0, 0, 1>>
\* identity rotation with translation (x, y, z) in slots 3, 7, 11
Translate(x, y, z) == <<1, 0, 0, x,  0, 1, 0, y,  0, 0, 1, z,  0, 0, 0, 1>>
\* a scaling by an int of some 300 digits, every entry within the float range
HugeDiag == <<HugeInt, 0, 0, 0,  0, HugeInt, 0, 0,  0, 0, HugeInt, 0,  0, 0, 0, 1>>
\* [1.0] * 16 of tests/test_validation.py: finite, but no rigid transform
AllOnes == [i \in 1..16 |-> 1]
\* a quarter turn about the z axis
QuarterTurn == <<0, -1, 0, 0,  1, 0, 0, 0,  0, 0, 1, 0,  0, 0, 0, 1>>
\* a scaling by 0 along z: finite entries, no inverse
Flat == <<1, 0, 0, 0,  0, 1, 0, 0,  0, 0, 0, 0,  0, 0, 0, 1>>
WithTranslation(m, p) == [i \in 1..16 |-> IF i = 4 THEN p[1] ELSE IF i = 8 THEN p[2]
                                          ELSE IF i = 12 THEN p[3] ELSE m[i]]

\* om.MMatrix.__mul__: the product a * b of two row-major 4x4 lists
MatMul(a, b) ==
    [n \in 1..16 |->
        LET i == (n - 1) \div 4
            j == (n - 1) % 4
        IN  At(a, i*4) * At(b, j) + At(a, i*4 + 1) * At(b, 4 + j)
          + At(a, i*4 + 2) * At(b, 8 + j) + At(a, i*4 + 3) * At(b, 12 + j)]

\* determinant of the 3x3 block
Det3(m) ==
      At(m, 0) * (At(m, 5) * At(m, 10) - At(m, 6) * At(m, 9))
    - At(m, 1) * (At(m, 4) * At(m, 10) - At(m, 6) * At(m, 8))
    + At(m, 2) * (At(m, 4) * At(m, 9) - At(m, 5) * At(m, 8))

IsAffine(m) == At(m, 12) = 0 /\ At(m, 13) = 0 /\ At(m, 14) = 0 /\ At(m, 15) = 1
Invertible(m) == IsAffine(m) /\ Det3(m) # 0

\* om.MMatrix.inverse of an invertible affine matrix [R t; 0 1]:
\* [adj(R)/det(R), -adj(R)/det(R) * t; 0 1]
Inverse(m) ==
    LET d == Det3(m)
        c00 == At(m, 5) * At(m, 10) - At(m, 6) * At(m, 9)
        c01 == At(m, 2) * At(m, 9) - At(m, 1) * At(m, 10)
        c02 == At(m, 1) * At(m, 6) - At(m, 2) * At(m, 5)
        c10 == At(m, 6) * At(m, 8) - At(m, 4) * At(m, 10)
        c11 == At(m, 0) * At(m, 10) - At(m, 2) * At(m, 8)
        c12 == At(m, 2) * At(m, 4) - At(m, 0) * At(m, 6)
        c20 == At(m, 4) * At(m, 9) - At(m, 5) * At(m, 8)
        c21 == At(m, 1) * At(m, 8) - At(m, 0) * At(m, 9)
        c22 == At(m, 0) * At(m, 5) - At(m, 1) * At(m, 4)
        r == <<Quot(c00, d), Quot(c01, d), Quot(c02, d),
               Quot(c10, d), Quot(c11, d), Quot(c12, d),
               Quot(c20, d), Quot(c21, d), Quot(c22, d)>>
        tx == At(m, 3)
        ty == At(m, 7)
        tz == At(m, 11)
    IN  <<r[1], r[2], r[3], -(r[1] * tx + r[2] * ty + r[3] * tz),
          r[4], r[5], r[6], -(r[4] * tx + r[5] * ty + r[6] * tz),
          r[7], r[8], r[9], -(r[7] * tx + r[8] * ty + r[9] * tz),
          0, 0, 0, 1>>

(* --------------------------- wire (JSON) values ------------------------ *)
\* A JSON value in a matrix list, as json.loads returns it: a float or an int
\* that converts to a float (num), NaN, Infinity, a string, true / false (a
\* Python bool, value 1 / 0), or an int above the float range (big).
Num(v) == <<"num", v>>
NaN == <<"nan">>
Inf == <<"inf">>
Str == <<"str">>
Bool(b) == <<"bool", b>>
Big == <<"big">>
\* isinstance(v, (int, float)): bool is a subclass of int
IsNumber(v) == v[1] \in {"num", "nan", "inf", "bool", "big"}
\* json.dumps / json.loads of a list of floats
ToWire(m) == [i \in 1..Len(m) |-> Num(m[i])]
Floats(w) == [i \in 1..Len(w) |-> w[i][2]]

(* ----------------------------- _validate_matrix ------------------------ *)
\* the first entry, in list order, at which the loop of the try block leaves
Offending(m) == {i \in 1..16 : m[i][1] # "num" /\ m[i][1] # "bool"}
FirstOffending(m) == CHOOSE i \in Offending(m) : \A j \in Offending(m) : i <= j

\* The try block: "True" / "False" are its return values, "raise" an exception
\* inside it (math.isinf of an int above the float range is an OverflowError).
\* math.sqrt(s) > MAX_TRANSLATION is decided on the squares, which is exact; a
\* slot above the bound alone puts the norm above it (math.sqrt then returns
\* more than the bound, or raises on a sum above the float range).
ValidateTry(m) ==
    IF m = <<>> THEN "False"
    ELSE IF Len(m) # 16 THEN "False"
    ELSE IF Offending(m) # {}
        THEN IF m[FirstOffending(m)] = Big THEN "raise" ELSE "False"
    ELSE LET tx == At(m, 3)[2]
             ty == At(m, 7)[2]
             tz == At(m, 11)[2]
         IN  IF Abs(tx) > MAX_TRANSLATION \/ Abs(ty) > MAX_TRANSLATION \/ Abs(tz) > MAX_TRANSLATION
             THEN "False"
             ELSE IF tx * tx + ty * ty + tz * tz > MAX_TRANSLATION * MAX_TRANSLATION
             THEN "False" ELSE "True"

\* the translation read from slots 12, 13, 14, where a column-major matrix has it
validate_matrix_wrong_slots(m) ==
    IF m = <<>> THEN FALSE
    ELSE IF Len(m) # 16 THEN FALSE
    ELSE IF Offending(m) # {} THEN FALSE
    ELSE LET tx == At(m, 12)[2]
             ty == At(m, 13)[2]
             tz == At(m, 14)[2]
         IN  ~(tx * tx + ty * ty + tz * tz > MAX_TRANSLATION * MAX_TRANSLATION)

\* try: ... except Exception: return False
_validate_matrix(m) == ValidateTry(m) = "True"

(* --------------------------- quaternion helpers ------------------------ *)
\* Fixed point: with quaternion components in units of 1/d a rotation matrix is
\* in units of 1/(d*d), the "1.0" of the source is d*d, and S is in units of 1/d.
\* At d = 1 these are the helpers at unit precision.

\* _mat_to_quat with qy and qz exchanged in the branch of a dominant m00
MatToQuatSwapped(d, m) ==
    LET m00 == At(m, 0)
        m01 == At(m, 1)
        m02 == At(m, 2)
        m10 == At(m, 4)
        m11 == At(m, 5)
        m12 == At(m, 6)
        m20 == At(m, 8)
        m21 == At(m, 9)
        m22 == At(m, 10)
        tr == m00 + m11 + m22
    IN  IF tr > 0 THEN
            LET S == Sqrt(tr + d * d) * 2
            IN  <<Quot(S, 4), Quot(m21 - m12, S), Quot(m02 - m20, S), Quot(m10 - m01, S)>>
        ELSE IF m00 > m11 /\ m00 > m22 THEN
            LET S == Sqrt(d * d + m00 - m11 - m22) * 2
            IN  <<Quot(m21 - m12, S), Quot(S, 4), Quot(m02 + m20, S), Quot(m01 + m10, S)>>
        ELSE IF m11 > m22 THEN
            LET S == Sqrt(d * d + m11 - m00 - m22) * 2
            IN  <<Quot(m02 - m20, S), Quot(m01 + m10, S), Quot(S, 4), Quot(m12 + m21, S)>>
        ELSE
            LET S == Sqrt(d * d + m22 - m00 - m11) * 2
            IN  <<Quot(m10 - m01, S), Quot(m02 + m20, S), Quot(m12 + m21, S), Quot(S, 4)>>

\* which of the four cases of _mat_to_quat the matrix m takes
Branch(m) ==
    LET m00 == At(m, 0)
        m11 == At(m, 5)
        m22 == At(m, 10)
    IN  IF m00 + m11 + m22 > 0 THEN 1
        ELSE IF m00 > m11 /\ m00 > m22 THEN 2
        ELSE IF m11 > m22 THEN 3
        ELSE 4

MatToQuatAt(d, m) ==
    LET m00 == At(m, 0)
        m01 == At(m, 1)
        m02 == At(m, 2)
        m10 == At(m, 4)
        m11 == At(m, 5)
        m12 == At(m, 6)
        m20 == At(m, 8)
        m21 == At(m, 9)
        m22 == At(m, 10)
        tr == m00 + m11 + m22
    IN  IF tr > 0 THEN
            LET S == Sqrt(tr + d * d) * 2
            IN  <<Quot(S, 4), Quot(m21 - m12, S), Quot(m02 - m20, S), Quot(m10 - m01, S)>>
        ELSE IF m00 > m11 /\ m00 > m22 THEN
            LET S == Sqrt(d * d + m00 - m11 - m22) * 2
            IN  <<Quot(m21 - m12, S), Quot(S, 4), Quot(m01 + m10, S), Quot(m02 + m20, S)>>
        ELSE IF m11 > m22 THEN
            LET S == Sqrt(d * d + m11 - m00 - m22) * 2
            IN  <<Quot(m02 - m20, S), Quot(m01 + m10, S), Quot(S, 4), Quot(m12 + m21, S)>>
        ELSE
            LET S == Sqrt(d * d + m22 - m00 - m11) * 2
            IN  <<Quot(m10 - m01, S), Quot(m02 + m20, S), Quot(m12 + m21, S), Quot(S, 4)>>

_mat_to_quat(m) == MatToQuatAt(1, m)

\* _mat_to_quat(m) raises OverflowError: one of the ints it hands to float
\* arithmetic (tr + 1.0, a numerator divided by S) is above the float range
MatToQuatRaises(m) ==
    LET m00 == At(m, 0)
        m01 == At(m, 1)
        m02 == At(m, 2)
        m10 == At(m, 4)
        m11 == At(m, 5)
        m12 == At(m, 6)
        m20 == At(m, 8)
        m21 == At(m, 9)
        m22 == At(m, 10)
        tr == m00 + m11 + m22
        ints == IF tr > 0 THEN {tr, m21 - m12, m02 - m20, m10 - m01}
                ELSE IF m00 > m11 /\ m00 > m22 THEN {m21 - m12, m01 + m10, m02 + m20}
                ELSE IF m11 > m22 THEN {m02 - m20, m01 + m10, m12 + m21}
                ELSE {m10 - m01, m02 + m20, m12 + m21}
    IN  \E x \in ints : Abs(x) > FloatRange

QuatToMatAt(d, q) ==
    LET qw == q[1]
        qx == q[2]
        qy == q[3]
        qz == q[4]
    IN  <<d * d - 2 * (qy*qy + qz*qz), 2 * (qx*qy - qw*qz), 2 * (qx*qz + qw*qy), 0,
          2 * (qx*qy + qw*qz), d * d - 2 * (qx*qx + qz*qz), 2 * (qy*qz - qw*qx), 0,
          2 * (qx*qz - qw*qy), 2 * (qy*qz + qw*qx), d * d - 2 * (qx*qx + qy*qy), 0,
          0, 0, 0, d * d>>

_quat_to_mat(q) == QuatToMatAt(1, q)

QDot(a, b) == a[1]*b[1] + a[2]*b[2] + a[3]*b[3] + a[4]*b[4]
QNeg(q) == <<-q[1], -q[2], -q[3], -q[4]>>
QNormalize(q) == LET n == Sqrt(QDot(q, q)) IN [i \in 1..4 |-> Quot(q[i], n)]

\* At unit precision a dot product in [0, 0.9995] is 0, so theta_0 is 90 degrees
\* and the weights are cos(t * 90) and sin(t * 90) rounded: cos >= 1/2 up to
\* t = 2/3, sin >= 1/2 from t = 1/3.
_quat_slerp(a, b, t) ==
    LET d0 == QDot(a, b)
        b2 == IF d0 < 0 THEN QNeg(b) ELSE b
        dotp == IF d0 < 0 THEN -d0 ELSE d0
    IN  IF dotp * 10000 > 9995 THEN
            QNormalize([i \in 1..4 |-> a[i] + Frac(t, b2[i] - a[i])])
        ELSE
            LET s0 == IF 3 * t[1] <= 2 * t[2] THEN 1 ELSE 0
                s1 == IF 3 * t[1] >= t[2] THEN 1 ELSE 0
            IN  [i \in 1..4 |-> a[i] * s0 + b2[i] * s1]

\* _quat_slerp leaving b in its hemisphere
SlerpTargetAsGiven(a, b) == b

\* "if dotp < 0.0": the b the interpolation goes to
SlerpTarget(a, b) == IF QDot(a, b) < 0 THEN QNeg(b) ELSE b

\* "if dotp > DOT_THRESHOLD", for components in units of 1/d
SlerpLinear(d, a, b) == QDot(a, SlerpTarget(a, b)) * 10000 > 9995 * d * d

\* _quat_slerp in fixed point for t in {0, 1/2, 1}.  In the angular case the
\* weights (s0, s1) are (1, 0) at t = 0 and (0, 1) at t = 1; at t = 1/2 they
\* are equal, 1 / (2 cos(theta_0 / 2)), which makes the result the normalised
\* a + b.
SlerpAt(d, a, b, t) ==
    LET b2 == SlerpTarget(a, b)
        unit(q) == LET n == Sqrt(QDot(q, q)) IN [i \in 1..4 |-> Quot(q[i] * d, n)]
    IN  IF SlerpLinear(d, a, b) THEN
            unit([i \in 1..4 |-> a[i] + Frac(t, b2[i] - a[i])])
        ELSE IF t[1] = 0 THEN [i \in 1..4 |-> a[i]]
        ELSE IF t[1] = t[2] THEN [i \in 1..4 |-> b2[i]]
        ELSE unit([i \in 1..4 |-> a[i] + b2[i]])

(* ------------------------------- packets ------------------------------- *)
\* A datagram.  raw: "json" (a UTF-8 JSON object), "garbage" (bytes that do
\* not decode), "nonobject" (JSON that is no object), "oversize" (a JSON pose
\* longer than the 8192 bytes recvfrom asks for), "empty" (b'').
\* type "absent": the object has no "type" key.  matrix None: no "matrix" key.
Packet(raw, type, matrix, cmd) == [raw |-> raw, type |-> type, matrix |-> matrix, cmd |-> cmd]
PosePacket(m) == Packet("json", "pose", ToWire(m), "")

BadNaN == [ToWire(Translate(1, 2, 3)) EXCEPT ![1] = NaN]
BadInf == [ToWire(Translate(1, 2, 3)) EXCEPT ![6] = Inf]
TooFar == ToWire(Translate(MAX_TRANSLATION + 1, 0, 0))
Short == SubSeq(ToWire(Identity), 1, 15)

PACKETS == <<
    PosePacket(Translate(1, 2, 3)),                          \* 1  valid pose
    PosePacket(AllOnes),                                     \* 2  valid pose, [1.0]*16
    Packet("json", "pose", BadNaN, ""),                      \* 3  NaN entry
    Packet("json", "pose", TooFar, ""),                      \* 4  translation over the bound
    Packet("json", "pose", None, ""),                        \* 5  no matrix
    Packet("json", "pose", Short, ""),                       \* 6  15 entries
    Packet("json", "calib", ToWire(Translate(1, 2, 3)), ""), \* 7  valid calib
    Packet("json", "calib", BadInf, ""),                     \* 8  calib with Inf
    Packet("json", "cmd", None, "reset_calib"),              \* 9
    Packet("json", "cmd", None, "zoom"),                     \* 10 unknown cmd
    Packet("json", "bogus", ToWire(Translate(1, 2, 3)), ""), \* 11 unknown type
    Packet("garbage", "", None, ""),                         \* 12 undecodable bytes
    Packet("nonobject", "", None, ""),                       \* 13 JSON list
    Packet("oversize", "pose", ToWire(Translate(1, 2, 3)), ""), \* 14
    Packet("empty", "", None, ""),                           \* 15 b''
    Packet("json", "absent", ToWire(Translate(1, 2, 3)), ""),   \* 16 {"matrix": ..., "t": ...}
    Packet("json", "pose", BadInf, ""),                      \* 17 Inf entry
    PosePacket(HugeDiag),                                    \* 18 valid pose of huge ints
    PosePacket(WithTranslation(QuarterTurn, <<0, 0, 1>>)),   \* 19 valid pose, turned
    Packet("json", "calib", ToWire(Flat), ""),               \* 20 calib, matrix without inverse
    Packet("json", "calib", None, "")                        \* 21 calib, no matrix
>>
PacketIds == 1..Len(PACKETS)

(* ------------------------------ state ---------------------------------- *)
VARIABLES
    SERVER_RUNNING, SERVER_SOCKET, SERVER_THREAD,
    SMOOTH_MODE, MIN_UPDATE_INTERVAL, MAX_BATCH_READ,
    LAST_RECEIVE_TIME, RECEIVED_FRAMES, DROPPED_FRAMES,
    CALIB_MATRIX, LAST_MATRIX, TARGET_MATRIX, PENDING_CALIB_DESIRED,
    POS_FILTERS, LAST_QUAT,
    INTERP_RUNNING, INTERP_THREAD, interp,
    receiving,   \* the batch pose the receive thread holds, about to hand it over
    ui,          \* the locals of a _ui_start between two of its assignments
    camera,      \* the sink: the world matrix of CAMERA_NAME in the scene
    now,         \* time.time(), in ticks
    op,          \* the handler whose body ran last
    sessions,    \* how many times start_server has bound the socket
    vm, vres     \* a matrix given to _validate_matrix, and its answer

globals == <<SERVER_RUNNING, SERVER_SOCKET, SERVER_THREAD,
             SMOOTH_MODE, MIN_UPDATE_INTERVAL, MAX_BATCH_READ,
             LAST_RECEIVE_TIME, RECEIVED_FRAMES, DROPPED_FRAMES,
             CALIB_MATRIX, LAST_MATRIX, TARGET_MATRIX, PENDING_CALIB_DESIRED,
             POS_FILTERS, LAST_QUAT, INTERP_RUNNING, INTERP_THREAD, interp, receiving, ui,
             camera>>
trace == <<op, sessions>>
pure == <<vm, vres>>
vars == <<globals, now, trace, pure>>

\* The globals as one record, as a handler finds them.  out collects the
\* matrices the handler pushes to the sink, in order, smoothed the strategy
\* output behind each of them, raised whether an exception is on its way out of the
\* code run so far, overflow whether the handler left the bounds.
\* The scene and the matrix library, as the handler finds them: xform_fails,
\* whether cmds.xform(CAMERA_NAME, q=True) raises (no such camera), and
\* singular_inverse, what MMatrix.inverse() does with a matrix that has no
\* inverse ("raise", or "returns": it returns a matrix all the same).
\* The network, as start_server finds it: bind_fails, whether
\* SERVER_SOCKET.bind(('0.0.0.0', PORT)) raises (the port is taken).
G == [SERVER_RUNNING |-> SERVER_RUNNING, SERVER_SOCKET |-> SERVER_SOCKET,
      SERVER_THREAD |-> SERVER_THREAD, SMOOTH_MODE |-> SMOOTH_MODE,
      MIN_UPDATE_INTERVAL |-> MIN_UPDATE_INTERVAL, MAX_BATCH_READ |-> MAX_BATCH_READ,
      LAST_RECEIVE_TIME |-> LAST_RECEIVE_TIME, RECEIVED_FRAMES |-> RECEIVED_FRAMES,
      DROPPED_FRAMES |-> DROPPED_FRAMES, CALIB_MATRIX |-> CALIB_MATRIX,
      LAST_MATRIX |-> LAST_MATRIX, TARGET_MATRIX |-> TARGET_MATRIX,
      PENDING_CALIB_DESIRED |-> PENDING_CALIB_DESIRED, POS_FILTERS |-> POS_FILTERS,
      LAST_QUAT |-> LAST_QUAT, INTERP_RUNNING |-> INTERP_RUNNING,
      INTERP_THREAD |-> INTERP_THREAD, interp |-> interp, receiving |-> receiving,
      ui |-> ui,
      camera |-> camera,
      sessions |-> sessions, now |-> now,
      out |-> <<>>, smoothed |-> <<>>, raised |-> FALSE, overflow |-> FALSE,
      xform_fails |-> FALSE, singular_inverse |-> "raise", bind_fails |-> FALSE]

\* the poses a handler leaves behind stay within the bound of the model
Small(m) == IF m = None THEN TRUE ELSE \A i \in 1..16 : Abs(m[i]) <= MaxCoord
Fits(s) ==
    /\ ~s.overflow
    /\ Small(s.camera) /\ Small(s.LAST_MATRIX) /\ Small(s.CALIB_MATRIX)
    /\ Small(s.TARGET_MATRIX) /\ Small(s.PENDING_CALIB_DESIRED)

\* The globals after a handler that ended in record s.
Becomes(s) ==
    /\ Fits(s)
    /\ SERVER_RUNNING' = s.SERVER_RUNNING
    /\ SERVER_SOCKET' = s.SERVER_SOCKET
    /\ SERVER_THREAD' = s.SERVER_THREAD
    /\ SMOOTH_MODE' = s.SMOOTH_MODE
    /\ MIN_UPDATE_INTERVAL' = s.MIN_UPDATE_INTERVAL
    /\ MAX_BATCH_READ' = s.MAX_BATCH_READ
    /\ LAST_RECEIVE_TIME' = s.LAST_RECEIVE_TIME
    /\ RECEIVED_FRAMES' = s.RECEIVED_FRAMES
    /\ DROPPED_FRAMES' = s.DROPPED_FRAMES
    /\ CALIB_MATRIX' = s.CALIB_MATRIX
    /\ LAST_MATRIX' = s.LAST_MATRIX
    /\ TARGET_MATRIX' = s.TARGET_MATRIX
    /\ PENDING_CALIB_DESIRED' = s.PENDING_CALIB_DESIRED
    /\ POS_FILTERS' = s.POS_FILTERS
    /\ LAST_QUAT' = s.LAST_QUAT
    /\ INTERP_RUNNING' = s.INTERP_RUNNING
    /\ INTERP_THREAD' = s.INTERP_THREAD
    /\ interp' = s.interp
    /\ receiving' = s.receiving
    /\ ui' = s.ui
    /\ camera' = s.camera
    /\ sessions' = s.sessions

(* --------------------------- AlphaBetaFilter --------------------------- *)
NewFilter == [x |-> 0, v |-> 0, last_t |-> NoTime]

\* an update whose first call after a reset starts from the reset value
FilterUpdateFromReset(f, meas, t) ==
    [x |-> f.x + Frac(FILTER_ALPHA, meas - f.x), v |-> 0, last_t |-> t]

\* AlphaBetaFilter.update(meas, t); the value returned is the new x.
\* dt = max(1e-6, now - last_t) seconds: d ticks, or a microsecond when d = 0.
FilterUpdate(f, meas, t) ==
    IF f.last_t = NoTime THEN [x |-> meas, v |-> 0, last_t |-> t]
    ELSE
        LET d == t - f.last_t
            x1 == f.x + (IF d >= 1 THEN Quot(f.v * d, TICKS_PER_SECOND) ELSE Quot(f.v, MICRO))
            r == meas - x1
            br == Frac(FILTER_BETA, r)
        IN  [x |-> x1 + Frac(FILTER_ALPHA, r),
             v |-> f.v + (IF d >= 1 THEN Quot(br * TICKS_PER_SECOND, d) ELSE br * MICRO),
             last_t |-> t]

\* AlphaBetaFilter.reset(value); value None is reset()
FilterReset(f, value) == [x |-> IF value = None THEN 0 ELSE value[1], v |-> 0, last_t |-> NoTime]

(* ------------------------------ the sink ------------------------------- *)
\* cmds.evalDeferred(_set_matrix): cmds.xform(CAMERA_NAME, ws=True, matrix=final)
\* sm is the strategy output that final was composed from.
_set_matrix(s, final, sm) ==
    [s EXCEPT !.camera = final, !.out = Append(@, final), !.smoothed = Append(@, sm)]

\* "apply calibration": mm_calib * mm_sm when CALIB_MATRIX is not None
Calibrated(s, m) == IF s.CALIB_MATRIX # None THEN MatMul(s.CALIB_MATRIX, m) ELSE m

(* -------------------------- interpolation thread ----------------------- *)
\* The threads are slots 1..MaxThreads; pc "none" is a free slot (no thread, or
\* one that has returned).  INTERP_THREAD is the slot of the thread created last.
NoThread == [pc |-> "none", tgt |-> None]
FreeSlots(threads) == {i \in 1..MaxThreads : threads[i].pc = "none"}
LowestFree(threads) == CHOOSE i \in FreeSlots(threads) : \A j \in FreeSlots(threads) : i <= j

\* overflow: the handler needs one more thread than the model holds
_start_interp_thread(s) ==
    IF s.INTERP_RUNNING THEN s
    ELSE IF FreeSlots(s.interp) = {} THEN [s EXCEPT !.overflow = TRUE]
    ELSE LET k == LowestFree(s.interp)
         IN  [s EXCEPT !.INTERP_RUNNING = TRUE,
                       !.interp[k] = [pc |-> "top", tgt |-> None],
                       !.INTERP_THREAD = k]

\* math.acos of a dot product clamped to [0, 1], in degrees
AcosDeg(d) == IF d >= 1 THEN 0 ELSE 90
FracLess(f, g) == f[1] * g[2] < g[1] * f[2]

\* the fraction is the configured one whatever the angle
EffectiveFractionUnclamped(a_rot, angle, max_deg) == a_rot

\* beyond the cap the fraction is max/angle, whatever the configured one
EffectiveFractionCapOnly(a_rot, angle, max_deg) ==
    IF angle > 0 /\ angle > max_deg THEN <<max_deg, angle>> ELSE a_rot

\* "slerp rotation with max delta clamping": the fraction handed to _quat_slerp.
\* Angles are in degrees (max_rad / angle is the same ratio in either unit);
\* the 1e-6 rad threshold lies below the angle resolution.
EffectiveFraction(a_rot, angle, max_deg) ==
    IF angle > 0 /\ angle > max_deg
    THEN LET frac == <<max_deg, angle>>
         IN  IF FracLess(frac, a_rot) THEN frac ELSE a_rot
    ELSE a_rot

\* the body of one pass of _interp_loop, after tgt was read and is not None
InterpStep(s, tgt) ==
    IF s.LAST_MATRIX = None THEN [s EXCEPT !.LAST_MATRIX = tgt]
    ELSE IF MatToQuatRaises(tgt) THEN [s EXCEPT !.raised = TRUE]
    ELSE IF MatToQuatRaises(s.LAST_MATRIX) THEN [s EXCEPT !.raised = TRUE]
    ELSE
        LET last == s.LAST_MATRIX
            tgt_quat == _mat_to_quat(tgt)
            last_quat == _mat_to_quat(last)
            a_pos == POS_ALPHA
            one_minus == <<a_pos[2] - a_pos[1], a_pos[2]>>
            new_pos == <<Frac(one_minus, At(last, 3)) + Frac(a_pos, At(tgt, 3)),
                         Frac(one_minus, At(last, 7)) + Frac(a_pos, At(tgt, 7)),
                         Frac(one_minus, At(last, 11)) + Frac(a_pos, At(tgt, 11))>>
            a_rot == ROT_ALPHA
            dotpq == Max2(-1, Min2(1, QDot(last_quat, tgt_quat)))
            angle == 2 * AcosDeg(Abs(dotpq))
            max_deg == MAX_ROTATION_DELTA_DEG
            eff_t == EffectiveFraction(a_rot, angle, max_deg)
            slerped == _quat_slerp(last_quat, tgt_quat, eff_t)
            nq_len == Sqrt(QDot(slerped, slerped))
            new_quat == IF nq_len = 0 THEN <<1, 0, 0, 0>>
                        ELSE [i \in 1..4 |-> Quot(slerped[i], nq_len)]
            final == WithTranslation(_quat_to_mat(new_quat), new_pos)
            final_list == Calibrated(s, final)
        IN  _set_matrix([s EXCEPT !.LAST_MATRIX = final_list], final_list, final)

\* a pass that, finding no target, interpolates towards the last output pose
InterpPassTowardsLast(s, i) ==
    LET tgt == IF s.TARGET_MATRIX = None THEN s.LAST_MATRIX ELSE s.TARGET_MATRIX
    IN  IF tgt = None THEN s
        ELSE LET r == InterpStep(s, tgt)
             IN  IF r.raised THEN [s EXCEPT !.interp[i] = NoThread, !.raised = TRUE] ELSE r

(* --------------------- a whole pass of _interp_loop -------------------- *)
\* One pass of the while loop by thread i, from the read of TARGET_MATRIX to
\* the sleep: with no target the thread sleeps 0.02 s and comes back to the
\* top; with one it runs the body.  An exception in the body ends the thread.
InterpPass(s, i) ==
    IF s.TARGET_MATRIX = None THEN s
    ELSE LET r == InterpStep(s, s.TARGET_MATRIX)
         IN  IF r.raised THEN [s EXCEPT !.interp[i] = NoThread, !.raised = TRUE] ELSE r

(* ------------------------ _apply_matrix_to_camera ---------------------- *)
\* DISABLED in the source: returns the matrix unchanged
_orthonormalize_rotation(mat_list) == mat_list

\* 'none' pushing the element-wise blend with LAST_MATRIX instead of the pose
ApplyNoneBlended(s, mat_list) ==
    LET a == SMOOTH_ALPHA
        one_minus == <<a[2] - a[1], a[2]>>
        sm == IF s.LAST_MATRIX = None THEN mat_list
              ELSE [i \in 1..16 |-> Frac(one_minus, s.LAST_MATRIX[i]) + Frac(a, mat_list[i])]
    IN  _set_matrix(s, Calibrated(s, sm), sm)

\* the predictive strategy pushing its output without the calibration
ApplyPredictiveUncalibrated(s, mat_list) ==
    LET f1 == FilterUpdate(s.POS_FILTERS[1], At(mat_list, 3), s.now)
        f2 == FilterUpdate(s.POS_FILTERS[2], At(mat_list, 7), s.now)
        f3 == FilterUpdate(s.POS_FILTERS[3], At(mat_list, 11), s.now)
        q_meas == _mat_to_quat(mat_list)
        q_f == IF s.LAST_QUAT = None THEN q_meas
               ELSE _quat_slerp(s.LAST_QUAT, q_meas, SMOOTH_ALPHA)
        final == WithTranslation(_quat_to_mat(q_f), <<f1.x, f2.x, f3.x>>)
        s1 == [s EXCEPT !.POS_FILTERS = <<f1, f2, f3>>, !.LAST_QUAT = q_f]
    IN  IF MatToQuatRaises(mat_list)
        THEN [s EXCEPT !.POS_FILTERS = <<f1, f2, f3>>, !.raised = TRUE]
        ELSE _set_matrix(s1, final, final)

ApplyNone(s, mat_list) == _set_matrix(s, Calibrated(s, mat_list), mat_list)

ApplyInterp(s, mat_list) == _start_interp_thread([s EXCEPT !.TARGET_MATRIX = mat_list])

ApplyPredictive(s, mat_list) ==
    LET f1 == FilterUpdate(s.POS_FILTERS[1], At(mat_list, 3), s.now)
        f2 == FilterUpdate(s.POS_FILTERS[2], At(mat_list, 7), s.now)
        f3 == FilterUpdate(s.POS_FILTERS[3], At(mat_list, 11), s.now)
        q_meas == _mat_to_quat(mat_list)
        q_f == IF s.LAST_QUAT = None THEN q_meas
               ELSE _quat_slerp(s.LAST_QUAT, q_meas, SMOOTH_ALPHA)
        final == WithTranslation(_quat_to_mat(q_f), <<f1.x, f2.x, f3.x>>)
        s1 == [s EXCEPT !.POS_FILTERS = <<f1, f2, f3>>, !.LAST_QUAT = q_f]
    IN  IF MatToQuatRaises(mat_list)
        THEN [s EXCEPT !.POS_FILTERS = <<f1, f2, f3>>, !.raised = TRUE]
        ELSE _set_matrix(s1, Calibrated(s1, final), final)

ApplyBlend(s, mat_list) ==
    LET a == SMOOTH_ALPHA
        one_minus == <<a[2] - a[1], a[2]>>
        sm == IF s.LAST_MATRIX = None THEN mat_list
              ELSE _orthonormalize_rotation(
                       [i \in 1..16 |-> Frac(one_minus, s.LAST_MATRIX[i]) + Frac(a, mat_list[i])])
        s1 == [s EXCEPT !.LAST_MATRIX = sm]
    IN  _set_matrix(s1, Calibrated(s1, sm), sm)

_apply_matrix_to_camera(s, mat_list) ==
    IF s.SMOOTH_MODE = "none" THEN ApplyNone(s, mat_list)
    ELSE IF s.SMOOTH_MODE = "matrix_interp" THEN ApplyInterp(s, mat_list)
    ELSE IF s.SMOOTH_MODE \in {"alpha_beta", "kalman"} THEN ApplyPredictive(s, mat_list)
    ELSE ApplyBlend(s, mat_list)

(* ------------------------------ calibration ---------------------------- *)
\* what the two outcomes of MMatrix.inverse() on a matrix without inverse are
SingularOutcomes == {"raise", "returns"}

\* mm_in.inverse(): the inverse; of a matrix that has none, the library either
\* raises (and so does the fallback through MTransformationMatrix) or returns a
\* matrix, here the one tests/conftest.py returns: the matrix itself
InverseOrSelf(m) == IF Invertible(m) THEN Inverse(m) ELSE m

\* the try block computing CALIB = inverse(incoming) * desired, the factors swapped
CalibrateTrySwapped(s, incoming_list) ==
    LET pending == s.PENDING_CALIB_DESIRED # None
        desired == IF pending THEN s.PENDING_CALIB_DESIRED ELSE s.camera
        s1 == [s EXCEPT !.PENDING_CALIB_DESIRED = None]
    IN  IF ~pending /\ s.xform_fails THEN [s EXCEPT !.raised = TRUE]
        ELSE IF ~Invertible(incoming_list) /\ s.singular_inverse = "raise"
            THEN [s1 EXCEPT !.raised = TRUE]
        ELSE [s1 EXCEPT !.CALIB_MATRIX = MatMul(InverseOrSelf(incoming_list), desired)]

\* the try block leaving the pending target in place after using it
CalibrateTryKeepsPending(s, incoming_list) ==
    LET pending == s.PENDING_CALIB_DESIRED # None
        desired == IF pending THEN s.PENDING_CALIB_DESIRED ELSE s.camera
    IN  IF ~pending /\ s.xform_fails THEN [s EXCEPT !.raised = TRUE]
        ELSE IF ~Invertible(incoming_list) /\ s.singular_inverse = "raise"
            THEN [s EXCEPT !.raised = TRUE]
        ELSE [s EXCEPT !.CALIB_MATRIX = MatMul(desired, InverseOrSelf(incoming_list))]

\* The try block of _calibrate_from_incoming: CALIB = desired * inverse(incoming).
\* The pending target is cleared as soon as it is read, before the inverse is
\* taken; CALIB_MATRIX is assigned last, so an exception leaves it alone.
CalibrateTry(s, incoming_list) ==
    LET pending == s.PENDING_CALIB_DESIRED # None
        desired == IF pending THEN s.PENDING_CALIB_DESIRED ELSE s.camera
        s1 == [s EXCEPT !.PENDING_CALIB_DESIRED = None]
    IN  IF ~pending /\ s.xform_fails THEN [s EXCEPT !.raised = TRUE]
        ELSE IF ~Invertible(incoming_list) /\ s.singular_inverse = "raise"
            THEN [s1 EXCEPT !.raised = TRUE]
        ELSE [s1 EXCEPT !.CALIB_MATRIX = MatMul(desired, InverseOrSelf(incoming_list))]

\* try: ... except Exception as e: print('Calibration from incoming failed:', e)
_calibrate_from_incoming(s, incoming_list) ==
    [CalibrateTry(s, incoming_list) EXCEPT !.raised = FALSE]

reset_calibration(s) == [s EXCEPT !.CALIB_MATRIX = None]

\* calibrate() storing nothing and making the camera's matrix the calibration
calibrate_applied(s) ==
    IF s.xform_fails THEN s ELSE [s EXCEPT !.CALIB_MATRIX = s.camera]

\* calibrate(): the camera's matrix becomes the pending target; a failing query
\* is caught and printed
calibrate(s) ==
    IF s.xform_fails THEN s ELSE [s EXCEPT !.PENDING_CALIB_DESIRED = s.camera]

(* ----------------------------- _process_packet ------------------------- *)
HasMatrix16(p) == p.matrix # None /\ Len(p.matrix) = 16

\* a pose that fails validation returned from without being counted
ProcessPoseUncounted(s, p, from_batch) ==
    IF ~HasMatrix16(p) THEN s
    ELSE IF ~_validate_matrix(p.matrix) THEN s
    ELSE IF ~from_batch /\ s.now - s.LAST_RECEIVE_TIME < s.MIN_UPDATE_INTERVAL
        THEN [s EXCEPT !.DROPPED_FRAMES = @ + 1]
    ELSE _apply_matrix_to_camera(
            [s EXCEPT !.LAST_RECEIVE_TIME = s.now, !.RECEIVED_FRAMES = @ + 1],
            Floats(p.matrix))

\* the rate limit with <= in place of <
ProcessPoseInclusive(s, p, from_batch) ==
    IF ~HasMatrix16(p) THEN s
    ELSE IF ~_validate_matrix(p.matrix)
        THEN [s EXCEPT !.DROPPED_FRAMES = @ + 1]
    ELSE IF ~from_batch /\ s.now - s.LAST_RECEIVE_TIME <= s.MIN_UPDATE_INTERVAL
        THEN [s EXCEPT !.DROPPED_FRAMES = @ + 1]
    ELSE _apply_matrix_to_camera(
            [s EXCEPT !.LAST_RECEIVE_TIME = s.now, !.RECEIVED_FRAMES = @ + 1],
            Floats(p.matrix))

ProcessPose(s, p, from_batch) ==
    IF ~HasMatrix16(p) THEN s
    ELSE IF ~_validate_matrix(p.matrix)
        THEN [s EXCEPT !.DROPPED_FRAMES = @ + 1]
    ELSE IF ~from_batch /\ s.now - s.LAST_RECEIVE_TIME < s.MIN_UPDATE_INTERVAL
        THEN [s EXCEPT !.DROPPED_FRAMES = @ + 1]
    ELSE _apply_matrix_to_camera(
            [s EXCEPT !.LAST_RECEIVE_TIME = s.now, !.RECEIVED_FRAMES = @ + 1],
            Floats(p.matrix))

ProcessCalib(s, p) ==
    IF ~HasMatrix16(p) THEN s
    ELSE IF ~_validate_matrix(p.matrix) THEN s
    ELSE _calibrate_from_incoming(s, Floats(p.matrix))

\* every cmd message resetting the calibration, whatever its command name
ProcessCmdAnyResets(s, p) == reset_calibration(s)

ProcessCmd(s, p) == IF p.cmd = "reset_calib" THEN reset_calibration(s) ELSE s

\* the try block with undecodable bytes counted as a dropped frame
ProcessTryCountsMalformed(s, p, from_batch) ==
    IF p.raw \in {"garbage", "empty", "nonobject"}
        THEN [s EXCEPT !.raised = TRUE, !.DROPPED_FRAMES = @ + 1]
    ELSE IF p.type \in {"pose", "absent"} THEN ProcessPose(s, p, from_batch)
    ELSE IF p.type = "calib" THEN ProcessCalib(s, p)
    ELSE IF p.type = "cmd" THEN ProcessCmd(s, p)
    ELSE s

\* the try block of _process_packet; json.loads raises on bytes that are no
\* JSON, payload.get on a JSON value that is no object
ProcessTry(s, p, from_batch) ==
    IF p.raw \in {"garbage", "empty", "nonobject"} THEN [s EXCEPT !.raised = TRUE]
    ELSE IF p.type \in {"pose", "absent"} THEN ProcessPose(s, p, from_batch)
    ELSE IF p.type = "calib" THEN ProcessCalib(s, p)
    ELSE IF p.type = "cmd" THEN ProcessCmd(s, p)
    ELSE s

\* try: ... except Exception as e: print(...)
_process_packet(s, p, from_batch) ==
    [ProcessTry(s, p, from_batch) EXCEPT !.raised = FALSE]

(* ------------------------------ _server_loop --------------------------- *)
\* The inner while of one receive cycle on socket buffer buf: what is left in
\* the buffer and the validated matrices collected.  recvfrom(8192) of a
\* longer datagram either truncates it (trunc) or raises; both discard it.
\* the inner while counting only the datagrams that carried a valid matrix
RECURSIVE DrainCountingValid(_, _, _, _, _)
DrainCountingValid(buf, batch, mats, max, trunc) ==
    IF batch >= max \/ buf = <<>> THEN [buf |-> buf, mats |-> mats]
    ELSE
        LET p == PACKETS[Head(buf)]
            rest == Tail(buf)
        IN  IF p.raw = "empty" THEN [buf |-> rest, mats |-> mats]
            ELSE IF p.raw = "oversize" /\ ~trunc THEN [buf |-> rest, mats |-> mats]
            ELSE IF p.raw = "json" /\ HasMatrix16(p) /\ _validate_matrix(p.matrix)
                THEN DrainCountingValid(rest, batch + 1, Append(mats, Floats(p.matrix)), max, trunc)
            ELSE DrainCountingValid(rest, batch, mats, max, trunc)

RECURSIVE Drain(_, _, _, _, _)
Drain(buf, batch, mats, max, trunc) ==
    IF batch >= max \/ buf = <<>> THEN [buf |-> buf, mats |-> mats]
    ELSE
        LET p == PACKETS[Head(buf)]
            rest == Tail(buf)
        IN  IF p.raw = "empty" THEN [buf |-> rest, mats |-> mats]
            ELSE IF p.raw = "oversize" /\ ~trunc THEN [buf |-> rest, mats |-> mats]
            ELSE IF p.raw = "json" /\ HasMatrix16(p) /\ _validate_matrix(p.matrix)
                THEN Drain(rest, batch + 1, Append(mats, Floats(p.matrix)), max, trunc)
            ELSE Drain(rest, batch + 1, mats, max, trunc)

RECURSIVE SumSeq(_)
SumSeq(sq) == IF sq = <<>> THEN 0 ELSE Head(sq) + SumSeq(Tail(sq))

\* the terms summed with no look at the hemisphere
SummedTermsPlain(qs) == qs

\* "ensure same hemisphere to avoid quaternion cancellation": the terms added
\* to quat_sum for the quaternions qs of a batch, the first being ref_q
SummedTerms(qs) ==
    [i \in 1..Len(qs) |-> IF i > 1 /\ QDot(qs[i], qs[1]) < 0 THEN QNeg(qs[i]) ELSE qs[i]]

\* quat_sum after the loop over the batch
QuatSum(terms) == [k \in 1..4 |-> SumSeq([i \in 1..Len(terms) |-> terms[i][k]])]

\* "compute batch average: mean translation + averaged quaternion"
BatchAverage(mats) ==
    LET n == Len(mats)
        pos_sum == <<SumSeq([i \in 1..n |-> At(mats[i], 3)]),
                     SumSeq([i \in 1..n |-> At(mats[i], 7)]),
                     SumSeq([i \in 1..n |-> At(mats[i], 11)])>>
        quat_sum == QuatSum(SummedTerms([i \in 1..n |-> _mat_to_quat(mats[i])]))
        avg_pos == [k \in 1..3 |-> Quot(pos_sum[k], n)]
        qlen == Sqrt(QDot(quat_sum, quat_sum))
        avg_quat == IF qlen = 0 THEN <<1, 0, 0, 0>>
                    ELSE [k \in 1..4 |-> Quot(quat_sum[k], qlen)]
    IN  WithTranslation(_quat_to_mat(avg_quat), avg_pos)

\* what one receive cycle hands to _process_packet: nothing, or the batch pose
Handed(mats) == IF mats = <<>> THEN <<>> ELSE <<PosePacket(BatchAverage(mats))>>

\* _mat_to_quat(m) raises inside the averaging
BatchRaises(mats) == \E i \in 1..Len(mats) : MatToQuatRaises(mats[i])

\* One pass of the outer while with the socket readable.  An exception in the
\* averaging reaches the outer except clause, whose break ends the loop.
ServerCycleResult(s, trunc) ==
    LET d == Drain(s.SERVER_SOCKET.buf, 0, <<>>, s.MAX_BATCH_READ, trunc)
        s1 == [s EXCEPT !.SERVER_SOCKET.buf = d.buf]
    IN  IF d.mats = <<>> THEN s1
        ELSE IF BatchRaises(d.mats) THEN [s1 EXCEPT !.SERVER_THREAD = "exited"]
        ELSE _process_packet(s1, Handed(d.mats)[1], TRUE)

\* the datagrams that pass takes from the socket, in order
Taken(s, trunc) ==
    LET d == Drain(s.SERVER_SOCKET.buf, 0, <<>>, s.MAX_BATCH_READ, trunc)
    IN  SubSeq(s.SERVER_SOCKET.buf, 1, Len(s.SERVER_SOCKET.buf) - Len(d.buf))

(* --------------------------- start / stop ------------------------------ *)
ClosedSocket == [open |-> FALSE, buf |-> <<>>]

\* start_server marking the session running before it binds
start_server_marks_first(s) ==
    IF s.SERVER_RUNNING THEN s
    ELSE IF s.bind_fails THEN [s EXCEPT !.SERVER_RUNNING = TRUE, !.raised = TRUE]
    ELSE
        LET s1 == [s EXCEPT !.SERVER_SOCKET = [open |-> TRUE, buf |-> <<>>],
                            !.sessions = @ + 1,
                            !.overflow = (s.sessions >= MaxSessions),
                            !.SERVER_RUNNING = TRUE,
                            !.LAST_MATRIX = s.camera]
            s2 == IF s1.SMOOTH_MODE = "matrix_interp" THEN _start_interp_thread(s1) ELSE s1
        IN  [s2 EXCEPT !.SERVER_THREAD = "running"]

\* When bind raises, the exception leaves start_server at once.  SERVER_SOCKET
\* then names a socket that is not bound: no datagram reaches it, as with none.
start_server(s) ==
    IF s.SERVER_RUNNING THEN s
    ELSE IF s.bind_fails THEN [s EXCEPT !.raised = TRUE]
    ELSE
        LET s1 == [s EXCEPT !.SERVER_SOCKET = [open |-> TRUE, buf |-> <<>>],
                            !.sessions = @ + 1,
                            !.overflow = (s.sessions >= MaxSessions),
                            !.SERVER_RUNNING = TRUE,
                            !.LAST_MATRIX = s.camera]
            s2 == IF s1.SMOOTH_MODE = "matrix_interp" THEN _start_interp_thread(s1) ELSE s1
        IN  [s2 EXCEPT !.SERVER_THREAD = "running"]

\* INTERP_THREAD.join(timeout=0.5): a thread waiting at the top of its loop has
\* either left by then (joined) or not; a thread inside a pass has not.
Join(threads, handle, joined) ==
    IF handle # 0 /\ joined /\ threads[handle].pc = "top"
    THEN [threads EXCEPT ![handle] = NoThread]
    ELSE threads

\* stop_server returning with the socket still bound
stop_server_keeps_socket(s, joined) ==
    IF ~s.SERVER_RUNNING THEN s
    ELSE [s EXCEPT !.SERVER_RUNNING = FALSE,
                   !.INTERP_RUNNING = FALSE,
                   !.interp = Join(s.interp, s.INTERP_THREAD, joined),
                   !.INTERP_THREAD = 0,
                   !.TARGET_MATRIX = None,
                   !.LAST_RECEIVE_TIME = 0,
                   !.LAST_QUAT = None,
                   !.RECEIVED_FRAMES = 0,
                   !.DROPPED_FRAMES = 0]

stop_server(s, joined) ==
    IF ~s.SERVER_RUNNING THEN s
    ELSE [s EXCEPT !.SERVER_RUNNING = FALSE,
                   !.INTERP_RUNNING = FALSE,
                   !.interp = Join(s.interp, s.INTERP_THREAD, joined),
                   !.INTERP_THREAD = 0,
                   !.SERVER_SOCKET = ClosedSocket,
                   !.TARGET_MATRIX = None,
                   !.LAST_RECEIVE_TIME = 0,
                   !.LAST_QUAT = None,
                   !.RECEIVED_FRAMES = 0,
                   !.DROPPED_FRAMES = 0]

\* _ui_start: the fields of the window become the configuration, the filters
\* are reset for a predictive mode, and start_server is called.
_ui_start(s, mode, min_interval, max_batch) ==
    LET s1 == [s EXCEPT !.SMOOTH_MODE = mode,
                        !.MIN_UPDATE_INTERVAL = min_interval,
                        !.MAX_BATCH_READ = Max2(1, max_batch)]
        s2 == IF mode \in {"alpha_beta", "kalman"}
              THEN [s1 EXCEPT !.POS_FILTERS = <<NewFilter, NewFilter, NewFilter>>,
                              !.LAST_QUAT = None]
              ELSE s1
    IN  start_server(s2)

\* The same call in two parts, for the threads that run in between: the
\* assignments up to ROT_ALPHA, of which the model keeps SMOOTH_MODE, and the
\* rest from MIN_UPDATE_INTERVAL on.  In between, the values read from the
\* window are locals of the call; was is the configuration the call found.
UiLocals(s, mode, min_interval, max_batch) ==
    [mode |-> mode, min_interval |-> min_interval, max_batch |-> max_batch,
     was |-> <<s.SMOOTH_MODE, s.MIN_UPDATE_INTERVAL, s.MAX_BATCH_READ>>]

UiAssignMode(s, mode, min_interval, max_batch) ==
    [s EXCEPT !.SMOOTH_MODE = mode, !.ui = UiLocals(s, mode, min_interval, max_batch)]

UiAssignRest(s) ==
    LET s1 == [s EXCEPT !.MIN_UPDATE_INTERVAL = s.ui.min_interval,
                        !.MAX_BATCH_READ = Max2(1, s.ui.max_batch),
                        !.ui = <<>>]
        s2 == IF s1.SMOOTH_MODE \in {"alpha_beta", "kalman"}
              THEN [s1 EXCEPT !.POS_FILTERS = <<NewFilter, NewFilter, NewFilter>>,
                              !.LAST_QUAT = None]
              ELSE s1
    IN  start_server(s2)

(* ------------------------------- actions ------------------------------- *)
Ran(name) == op' = name

HeadRoom == RECEIVED_FRAMES < MaxFrames /\ DROPPED_FRAMES < MaxFrames

\* the clock advances
Tick ==
    /\ now < Epoch + TimeSpan
    /\ now' = now + 1
    /\ Becomes(G)
    /\ UNCHANGED op

\* feedPacket: _process_packet(data) called by the host or a test
FeedFrom(ids) ==
    \E id \in ids :
        /\ HeadRoom
        /\ Becomes(_process_packet(G, PACKETS[id], FALSE))
        /\ Ran("_process_packet")
        /\ UNCHANGED now

\* a datagram reaches the bound socket
SendFrom(ids) ==
    \E id \in ids :
        /\ SERVER_SOCKET.open
        /\ Len(SERVER_SOCKET.buf) < MaxQueue
        /\ Becomes([G EXCEPT !.SERVER_SOCKET.buf = Append(@, id)])
        /\ Ran("sendto")
        /\ UNCHANGED now

\* the receive thread: select reports the socket readable, one cycle runs
ServerCycle ==
    \E trunc \in BOOLEAN :
        /\ SERVER_RUNNING /\ SERVER_THREAD = "running"
        /\ SERVER_SOCKET.open /\ SERVER_SOCKET.buf # <<>>
        /\ HeadRoom
        /\ Becomes(ServerCycleResult(G, trunc))
        /\ Ran("_server_loop")
        /\ UNCHANGED now

\* The same cycle in two steps of the receive thread.  First the inner while
\* and the averaging: the thread holds the batch pose in its locals.
ServerTake ==
    \E trunc \in BOOLEAN :
        /\ SERVER_RUNNING /\ SERVER_THREAD = "running" /\ receiving = <<>>
        /\ SERVER_SOCKET.open /\ SERVER_SOCKET.buf # <<>>
        /\ LET d == Drain(SERVER_SOCKET.buf, 0, <<>>, MAX_BATCH_READ, trunc)
               s1 == [G EXCEPT !.SERVER_SOCKET.buf = d.buf]
           IN  Becomes(IF d.mats = <<>> THEN s1
                       ELSE IF BatchRaises(d.mats) THEN [s1 EXCEPT !.SERVER_THREAD = "exited"]
                       ELSE [s1 EXCEPT !.receiving = Handed(d.mats)])
        /\ Ran("recvfrom")
        /\ UNCHANGED now

\* then _process_packet(..., from_batch=True); nothing between the two steps
\* looks at SERVER_RUNNING again
ServerHand ==
    /\ SERVER_THREAD = "running" /\ receiving # <<>>
    /\ HeadRoom
    /\ Becomes(_process_packet([G EXCEPT !.receiving = <<>>], receiving[1], TRUE))
    /\ Ran("_server_loop")
    /\ UNCHANGED now

\* the receive thread finds SERVER_RUNNING false (or its socket closed) and ends
ServerExit ==
    /\ ~SERVER_RUNNING /\ SERVER_THREAD = "running" /\ receiving = <<>>
    /\ Becomes([G EXCEPT !.SERVER_THREAD = "exited"])
    /\ UNCHANGED op
    /\ UNCHANGED now

\* start_server called by the host; the port is free or taken
StartServer ==
    \E fails \in BOOLEAN :
        /\ ~SERVER_RUNNING
        /\ Becomes(start_server([G EXCEPT !.bind_fails = fails]))
        /\ Ran("start_server")
        /\ UNCHANGED now

StopServer ==
    \E joined \in BOOLEAN :
        /\ SERVER_RUNNING
        /\ Becomes(stop_server(G, joined))
        /\ Ran("stop_server")
        /\ UNCHANGED now

UiStartWith(modes, intervals, batches) ==
    \E mode \in modes, mi \in intervals, mb \in batches :
        /\ Becomes(_ui_start(G, mode, mi, mb))
        /\ Ran("_ui_start")
        /\ UNCHANGED now

ResetCalibration ==
    /\ Becomes(reset_calibration(G))
    /\ Ran("reset_calibration")
    /\ UNCHANGED now

\* an interpolation thread at "while INTERP_RUNNING": it reads the target under
\* TARGET_LOCK and goes on when there is one (else it sleeps and comes back)
InterpRead ==
    \E i \in 1..MaxThreads :
        /\ interp[i].pc = "top" /\ INTERP_RUNNING /\ TARGET_MATRIX # None
        /\ Becomes([G EXCEPT !.interp[i] = [pc |-> "tick", tgt |-> TARGET_MATRIX]])
        /\ UNCHANGED op
        /\ UNCHANGED now

\* the rest of the pass: interpolate, calibrate, push, sleep; the loop has no
\* try, an exception in the pass ends the thread
InterpTick ==
    \E i \in 1..MaxThreads :
        /\ interp[i].pc = "tick"
        /\ LET r == InterpStep([G EXCEPT !.interp[i] = [pc |-> "top", tgt |-> None]],
                               interp[i].tgt)
           IN  Becomes(IF r.raised THEN [G EXCEPT !.interp[i] = NoThread] ELSE r)
        /\ Ran("_interp_loop")
        /\ UNCHANGED now

InterpExit ==
    \E i \in 1..MaxThreads :
        /\ interp[i].pc = "top" /\ ~INTERP_RUNNING
        /\ Becomes([G EXCEPT !.interp[i] = NoThread])
        /\ UNCHANGED op
        /\ UNCHANGED now

InitSession ==
    /\ SERVER_RUNNING = FALSE
    /\ SERVER_SOCKET = ClosedSocket
    /\ SERVER_THREAD = "none"
    /\ SMOOTH_MODE = "none"
    /\ MIN_UPDATE_INTERVAL = MIN_UPDATE_INTERVAL_INIT
    /\ MAX_BATCH_READ = MAX_BATCH_READ_INIT
    /\ LAST_RECEIVE_TIME = 0
    /\ RECEIVED_FRAMES = 0
    /\ DROPPED_FRAMES = 0
    /\ CALIB_MATRIX = None
    /\ LAST_MATRIX = None
    /\ TARGET_MATRIX = None
    /\ PENDING_CALIB_DESIRED = None
    /\ POS_FILTERS = <<NewFilter, NewFilter, NewFilter>>
    /\ LAST_QUAT = None
    /\ INTERP_RUNNING = FALSE
    /\ INTERP_THREAD = 0
    /\ interp = [i \in 1..MaxThreads |-> NoThread]
    /\ receiving = <<>>
    /\ ui = <<>>
    /\ camera = Identity
    /\ now = Epoch
    /\ op = "import"
    /\ sessions = 0

Init ==
    /\ InitSession
    /\ vm = <<>>
    /\ vres = "none"

\* The host feeds packets itself (no datagram travels): every packet of the
\* catalog, under every smoothing mode.
FeedIds == {1, 2, 3, 7, 9, 12}
Feed == FeedFrom(FeedIds)
UiStart == UiStartWith(Modes, {MIN_UPDATE_INTERVAL_INIT}, {MAX_BATCH_READ_INIT})

FeedNext ==
    /\ \/ Tick
       \/ Feed
       \/ UiStart
       \/ InterpRead
       \/ InterpTick
    /\ UNCHANGED pure

SpecFeed == Init /\ [][FeedNext]_vars

\* Datagrams travel: a peer sends packets to the bound socket and the receive
\* thread takes them, one cycle at a time, under strategy 'none'.  The
\* calibration is set through the handler, the only way the code has to set one.
SendIds == {1, 3, 7, 9, 12, 18}
Send == SendFrom(SendIds)
FeedCalib == FeedFrom({7})
UiStartNet == UiStartWith({"none"}, {MIN_UPDATE_INTERVAL_INIT}, 1..MaxBatchCfg)

NetNext ==
    /\ \/ Tick
       \/ Send
       \/ ServerCycle
       \/ UiStartNet
       \/ FeedCalib
    /\ UNCHANGED pure

SpecNet == Init /\ [][NetNext]_vars

\* The session is started, stopped and started again under 'matrix_interp'
\* while a peer sends poses: the receive thread and the interpolation threads
\* take their steps in any order between the calls of the host.
SendLife == SendFrom({1})
UiStartLife == UiStartWith({"matrix_interp"}, {MIN_UPDATE_INTERVAL_INIT}, {MAX_BATCH_READ_INIT})

LifeNext ==
    /\ \/ SendLife
       \/ ServerTake
       \/ ServerHand
       \/ ServerExit
       \/ UiStartLife
       \/ StartServer
       \/ StopServer
       \/ InterpRead
       \/ InterpTick
       \/ InterpExit
    /\ UNCHANGED pure

SpecLife == Init /\ [][LifeNext]_vars

(* ----------------------- scenario: _validate_matrix -------------------- *)
\* Translations around the bound: (3/5, 4/5, 0) * MAX_TRANSLATION has norm
\* MAX_TRANSLATION exactly.
ValidateCoords ==
    {0, 1, -MAX_TRANSLATION, (3 * MAX_TRANSLATION) \div 5, (4 * MAX_TRANSLATION) \div 5,
     MAX_TRANSLATION + 1}
ValidateBase == {ToWire(Translate(x, y, z)) : x, y, z \in ValidateCoords} \cup {ToWire(AllOnes)}
ValidatePoison == {NaN, Inf, Str, Big, Bool(1)}
ValidateSlots == {0, 3, 12, 15}
ValidateInputs ==
    ValidateBase
    \cup {[w EXCEPT ![i + 1] = e] : w \in ValidateBase, i \in ValidateSlots, e \in ValidatePoison}
    \cup {[w EXCEPT ![1] = Str, ![2] = Big] : w \in ValidateBase}
    \cup {[w EXCEPT ![1] = Big, ![2] = Str] : w \in ValidateBase}
    \cup {SubSeq(w, 1, 15) : w \in ValidateBase}
    \cup {Append(w, Num(0)) : w \in ValidateBase}
    \cup {<<>>}

InitValidate ==
    /\ InitSession
    /\ vm \in ValidateInputs
    /\ vres = "none"

\* _validate_matrix(vm) is called and returns
Validate ==
    /\ vres = "none"
    /\ vres' = IF _validate_matrix(vm) THEN "True" ELSE "False"
    /\ UNCHANGED <<globals, now, trace, vm>>

SpecValidate == InitValidate /\ [][Validate]_vars

\* every entry is a number that is neither NaN nor Infinity
AllFinite(m) == \A i \in 1..Len(m) : m[i][1] \in {"num", "bool", "big"}
\* every entry is a finite number that math.isinf can take: a float, or an int
\* (a bool included) within the float range
AllFiniteFloats(m) == \A i \in 1..Len(m) : m[i][1] \in {"num", "bool"}
\* the norm of slots 3, 7, 11 is at most MAX_TRANSLATION (an int above the float
\* range is above it)
TranslationWithin(m) ==
    LET t == <<At(m, 3), At(m, 7), At(m, 11)>>
    IN  IF \E i \in 1..3 : t[i] = Big THEN FALSE
        ELSE t[1][2] * t[1][2] + t[2][2] * t[2][2] + t[3][2] * t[3][2]
                 <= MAX_TRANSLATION * MAX_TRANSLATION

\* C2 as stated: _validate_matrix(m) is true exactly when m has 16 entries, all
\* of them finite numbers, and the norm of slots 3, 7, 11 is at most
\* MAX_TRANSLATION.  Violated by a matrix with an int above the float range in a
\* rotation slot: finite, within the bound, and rejected.
ValidateAsStated ==
    vres # "none" =>
        (vres = "True" <=>
            IF Len(vm) = 16 /\ AllFinite(vm) THEN TranslationWithin(vm) ELSE FALSE)

\* C2, amended: _validate_matrix(m) returns true exactly when m has 16 entries,
\* every entry is a finite number within the float range (a float or an int; a
\* bool counts as an int), and the norm of slots 3, 7, 11 is at most
\* MAX_TRANSLATION; for every other input it returns false, and it never raises
\* (it always returns one of the two).
ValidateExact ==
    /\ vres \in {"none", "True", "False"}
    /\ vres # "none" =>
        (vres = "True" <=>
            IF Len(vm) = 16 /\ AllFiniteFloats(vm) THEN TranslationWithin(vm) ELSE FALSE)

\* a matrix on the bound is accepted: translation (6000, 8000, 0)
ValidateWitness ==
    /\ vres = "True"
    /\ vm = ToWire(Translate((3 * MAX_TRANSLATION) \div 5, (4 * MAX_TRANSLATION) \div 5, 0))

(* --------------------------- packets by kind --------------------------- *)
IsPose(p) == p.raw \in {"json", "oversize"} /\ p.type \in {"pose", "absent"} /\ HasMatrix16(p)
NonFinite(w) == \E i \in 1..Len(w) : w[i] \in {NaN, Inf}
\* a 16-entry matrix of the catalog that validation is to refuse / to pass
Refused(w) == IF NonFinite(w) THEN TRUE ELSE ~TranslationWithin(w)
InvalidPoseIds == {id \in PacketIds : IsPose(PACKETS[id]) /\ Refused(PACKETS[id].matrix)}
ValidPoseIds == {id \in PacketIds : IsPose(PACKETS[id]) /\ ~Refused(PACKETS[id].matrix)}

\* C1: _process_packet given a pose whose 16-entry matrix has a NaN / Inf entry
\* or a translation norm above MAX_TRANSLATION adds exactly 1 to the dropped
\* counter and leaves the received counter, the last-accepted time, the target,
\* the last output pose and the calibration as they were; nothing reaches the
\* sink, and no exception leaves the handler.
InvalidPoseDropped ==
    \A id \in InvalidPoseIds, from_batch \in BOOLEAN :
        LET s == _process_packet(G, PACKETS[id], from_batch)
        IN  /\ s.DROPPED_FRAMES = DROPPED_FRAMES + 1
            /\ s.RECEIVED_FRAMES = RECEIVED_FRAMES
            /\ s.LAST_RECEIVE_TIME = LAST_RECEIVE_TIME
            /\ s.TARGET_MATRIX = TARGET_MATRIX
            /\ s.LAST_MATRIX = LAST_MATRIX
            /\ s.CALIB_MATRIX = CALIB_MATRIX
            /\ s.out = <<>>
            /\ s.camera = camera
            /\ ~s.raised

\* a packet was dropped that no rate limit can have dropped (nothing was ever
\* accepted), with a calibration set
InvalidPoseDroppedWitness ==
    /\ op = "_process_packet"
    /\ InvalidPoseIds # {}
    /\ DROPPED_FRAMES = 1 /\ RECEIVED_FRAMES = 0 /\ LAST_RECEIVE_TIME = 0
    /\ CALIB_MATRIX # None

\* what a step may have changed of the smoothing pipeline
Pipeline(s) == <<s.TARGET_MATRIX, s.LAST_MATRIX, s.POS_FILTERS, s.LAST_QUAT, s.camera, s.out>>
Accepted(s) == [s EXCEPT !.LAST_RECEIVE_TIME = s.now, !.RECEIVED_FRAMES = @ + 1]

RateLimitDecides ==
    \A id \in ValidPoseIds :
        LET s == _process_packet(G, PACKETS[id], FALSE)
        IN  IF now - LAST_RECEIVE_TIME < MIN_UPDATE_INTERVAL
            THEN /\ s.DROPPED_FRAMES = DROPPED_FRAMES + 1
                 /\ s.RECEIVED_FRAMES = RECEIVED_FRAMES
                 /\ s.LAST_RECEIVE_TIME = LAST_RECEIVE_TIME
                 /\ Pipeline(s) = Pipeline(G)
            ELSE /\ s.RECEIVED_FRAMES = RECEIVED_FRAMES + 1
                 /\ s.DROPPED_FRAMES = DROPPED_FRAMES
                 /\ s.LAST_RECEIVE_TIME = now
                 /\ s = [_apply_matrix_to_camera(Accepted(G), Floats(PACKETS[id].matrix))
                            EXCEPT !.raised = FALSE]

AcceptedApart ==
    (RECEIVED_FRAMES' = RECEIVED_FRAMES + 1) =>
        /\ LAST_RECEIVE_TIME' = now'
        /\ LAST_RECEIVE_TIME' - LAST_RECEIVE_TIME >= MIN_UPDATE_INTERVAL

\* C3: _process_packet with from_batch false drops a valid pose (dropped +1,
\* last-accepted time and pipeline untouched) exactly when now minus the
\* last-accepted time is below MIN_UPDATE_INTERVAL, and otherwise accepts it
\* (received +1, last-accepted time := now, the pose given to the strategy); in
\* every step that accepts a sample, the sample is at least MIN_UPDATE_INTERVAL
\* after the one accepted before.
RateLimit == []RateLimitDecides /\ [][AcceptedApart]_vars

\* a second sample was accepted, MIN_UPDATE_INTERVAL after the first, and one
\* was dropped in between
RateLimitWitness ==
    /\ op = "_process_packet"
    /\ RECEIVED_FRAMES = 2 /\ DROPPED_FRAMES = 1
    /\ LAST_RECEIVE_TIME = now /\ now = Epoch + MIN_UPDATE_INTERVAL

\* every matrix a step pushed is the calibration of the step's pre-state
\* composed with the strategy output behind it
Composed(s) ==
    /\ Len(s.out) = Len(s.smoothed)
    /\ \A k \in 1..Len(s.out) :
        s.out[k] = IF CALIB_MATRIX = None THEN s.smoothed[k]
                   ELSE MatMul(CALIB_MATRIX, s.smoothed[k])
    /\ s.out # <<>> => s.camera = s.out[Len(s.out)]
    /\ s.out = <<>> => s.camera = camera

\* C8: under every strategy, each matrix that reaches the sink (from the packet
\* handler, batched or not, or from a pass of the interpolation thread) is
\* CALIB_MATRIX * smoothed, smoothed being the strategy output of that step, and
\* just smoothed when no calibration is set; nothing else changes the sink.
SinkIsCalibrated ==
    /\ \A id \in PacketIds, from_batch \in BOOLEAN :
        Composed(_process_packet(G, PACKETS[id], from_batch))
    /\ \A i \in 1..MaxThreads :
        interp[i].pc = "tick" => Composed(InterpStep(G, interp[i].tgt))

\* a predictive strategy has pushed a pose under a calibration that moves it
SinkIsCalibratedWitness ==
    /\ op = "_process_packet"
    /\ SMOOTH_MODE \in {"alpha_beta", "kalman"}
    /\ POS_FILTERS[1].last_t # NoTime
    /\ CALIB_MATRIX = Translate(-1, -2, -3)
    /\ camera = Identity

\* C9: under strategy 'none' with no calibration, an accepted pose packet makes
\* the sink receive exactly the 16 values of the packet's matrix (translation
\* slots 1, 2, 3 for the identity translated by (1, 2, 3)), whatever poses were
\* received before.
NoneIsExact ==
    (SMOOTH_MODE = "none" /\ CALIB_MATRIX = None) =>
        \A id \in ValidPoseIds, from_batch \in BOOLEAN :
            LET s == _process_packet(G, PACKETS[id], from_batch)
            IN  s.RECEIVED_FRAMES = RECEIVED_FRAMES + 1 =>
                    /\ s.out = <<Floats(PACKETS[id].matrix)>>
                    /\ s.camera = Floats(PACKETS[id].matrix)
                    /\ id = 1 => <<At(s.camera, 3), At(s.camera, 7), At(s.camera, 11)>> = <<1, 2, 3>>

\* the translated identity reached the sink after another pose had been blended
\* under another strategy
NoneIsExactWitness ==
    /\ op = "_process_packet"
    /\ SMOOTH_MODE = "none" /\ CALIB_MATRIX = None
    /\ RECEIVED_FRAMES = 2
    /\ LAST_MATRIX = AllOnes
    /\ camera = Translate(1, 2, 3)

(* ------------------------- the receive loop ---------------------------- *)
\* the receive thread is about to run a cycle: select reports a datagram
Ready ==
    /\ SERVER_RUNNING /\ SERVER_THREAD = "running"
    /\ SERVER_SOCKET.open /\ SERVER_SOCKET.buf # <<>>
Arrived == PACKETS[Head(SERVER_SOCKET.buf)]

\* C4: with MAX_BATCH_READ = 1 a valid pose that the receive loop takes less
\* than MIN_UPDATE_INTERVAL after the last accepted pose is dropped and counted
\* (dropped +1, received and last-accepted time unchanged).
NetworkRateLimited ==
    (Ready /\ MAX_BATCH_READ = 1 /\ Head(SERVER_SOCKET.buf) \in ValidPoseIds
           /\ now - LAST_RECEIVE_TIME < MIN_UPDATE_INTERVAL) =>
        \A trunc \in BOOLEAN :
            LET s == ServerCycleResult(G, trunc)
            IN  /\ s.DROPPED_FRAMES = DROPPED_FRAMES + 1
                /\ s.RECEIVED_FRAMES = RECEIVED_FRAMES
                /\ s.LAST_RECEIVE_TIME = LAST_RECEIVE_TIME

\* C5: one receive cycle takes at most MAX_BATCH_READ datagrams from the socket,
\* valid or not, and leaves the rest; it hands at most one pose to the handler
\* (at most one received, at most one push); when the cycle collected a valid
\* matrix and averaged it, that pose is accepted whatever the time since the
\* last accepted one (received +1, nothing dropped, last-accepted time := now).
BatchCycle ==
    Ready =>
        \A trunc \in BOOLEAN :
            LET s == ServerCycleResult(G, trunc)
                d == Drain(SERVER_SOCKET.buf, 0, <<>>, MAX_BATCH_READ, trunc)
                n == Len(Taken(G, trunc))
            IN  /\ n <= MAX_BATCH_READ
                /\ s.SERVER_SOCKET.buf = SubSeq(SERVER_SOCKET.buf, n + 1, Len(SERVER_SOCKET.buf))
                /\ s.RECEIVED_FRAMES \in {RECEIVED_FRAMES, RECEIVED_FRAMES + 1}
                /\ Len(s.out) <= 1
                /\ Len(d.mats) <= n
                /\ IF d.mats = <<>> THEN
                       /\ s.RECEIVED_FRAMES = RECEIVED_FRAMES
                       /\ s.LAST_RECEIVE_TIME = LAST_RECEIVE_TIME
                       /\ s.out = <<>>
                   ELSE ~BatchRaises(d.mats) =>
                       /\ s.RECEIVED_FRAMES = RECEIVED_FRAMES + 1
                       /\ s.DROPPED_FRAMES = DROPPED_FRAMES
                       /\ s.LAST_RECEIVE_TIME = now

\* with MAX_BATCH_READ = 2 a second pose was accepted in the instant of the first
BatchCycleWitness ==
    /\ op = "_server_loop"
    /\ MAX_BATCH_READ = 2
    /\ RECEIVED_FRAMES = 2 /\ DROPPED_FRAMES = 0
    /\ LAST_RECEIVE_TIME = Epoch /\ now = Epoch

\* C6: a datagram with a 16-entry matrix that fails validation, taken by the
\* receive loop, adds one to the dropped counter, as _process_packet does.
NetworkInvalidCounted ==
    (Ready /\ MAX_BATCH_READ = 1 /\ Head(SERVER_SOCKET.buf) \in InvalidPoseIds) =>
        \A trunc \in BOOLEAN :
            /\ ServerCycleResult(G, trunc).DROPPED_FRAMES = DROPPED_FRAMES + 1
            /\ ServerCycleResult(G, trunc).DROPPED_FRAMES
                   = _process_packet(G, Arrived, FALSE).DROPPED_FRAMES

\* C7: while the session is running no packet ends the receive loop or an
\* interpolation thread: the receive thread is alive as long as SERVER_RUNNING,
\* a started interpolation thread as long as INTERP_RUNNING.
TasksSurvive ==
    /\ SERVER_RUNNING => SERVER_THREAD = "running"
    /\ (INTERP_RUNNING /\ INTERP_THREAD # 0) => interp[INTERP_THREAD].pc # "none"

\* C10: the receive loop dispatches on "type": a calib datagram computes the
\* calibration from its matrix and reaches neither the strategy nor the sink;
\* a cmd datagram with reset_calib resets the calibration.
NetworkDispatch ==
    (Ready /\ MAX_BATCH_READ = 1 /\ Arrived.raw = "json") =>
        \A trunc \in BOOLEAN :
            LET s == ServerCycleResult(G, trunc)
            IN  /\ (Arrived.type = "calib" /\ HasMatrix16(Arrived) /\ ~Refused(Arrived.matrix)) =>
                       /\ s.out = <<>>
                       /\ s.RECEIVED_FRAMES = RECEIVED_FRAMES
                       /\ s.CALIB_MATRIX
                              = _calibrate_from_incoming(G, Floats(Arrived.matrix)).CALIB_MATRIX
                /\ (Arrived.type = "cmd" /\ Arrived.cmd = "reset_calib") =>
                       s.CALIB_MATRIX = None

(* ------------------------------ commands ------------------------------- *)
ResetCmdIds == {id \in PacketIds : PACKETS[id].raw = "json" /\ PACKETS[id].type = "cmd"
                                   /\ PACKETS[id].cmd = "reset_calib"}
OtherCmdIds == {id \in PacketIds : PACKETS[id].raw = "json" /\ PACKETS[id].type = "cmd"
                                   /\ PACKETS[id].cmd # "reset_calib"}
UnknownTypeIds == {id \in PacketIds : PACKETS[id].raw = "json"
                                      /\ PACKETS[id].type \notin {"pose", "absent", "calib", "cmd"}}

\* C11: _process_packet given a cmd message with reset_calib sets CALIB_MATRIX
\* to None and changes nothing else; given any other cmd, or a message of an
\* unrecognized type, it leaves every global as it was (target, last output,
\* calibration, pending calibration target, counters, last-accepted time, sink),
\* pushes nothing and lets no exception out.
CmdEffect ==
    \A from_batch \in BOOLEAN :
        /\ \A id \in ResetCmdIds :
               _process_packet(G, PACKETS[id], from_batch) = [G EXCEPT !.CALIB_MATRIX = None]
        /\ \A id \in OtherCmdIds \cup UnknownTypeIds :
               _process_packet(G, PACKETS[id], from_batch) = G

\* the calibration is absent again after it had moved a pose on its way to the
\* sink: only a calibration of (-1, -2, -3) sends [1.0]*16 there
CmdEffectWitness ==
    /\ op = "_process_packet"
    /\ ResetCmdIds # {} /\ OtherCmdIds # {} /\ UnknownTypeIds # {}
    /\ CALIB_MATRIX = None
    /\ camera = MatMul(Translate(-1, -2, -3), AllOnes)

(* --------------------------- scenario: calibration --------------------- *)
\* The host moves the camera by feeding poses under 'none', asks for a
\* calibration and calibrates from incoming samples: a translation, a turned
\* pose, and a matrix that has no inverse.
CalibSamples == {Translate(1, 2, 3), WithTranslation(QuarterTurn, <<0, 0, 1>>), Flat}
RigidSamples == {m \in CalibSamples : Invertible(m)}
SingularSamples == {m \in CalibSamples : ~Invertible(m)}

\* the handler's record with the scene and the library behaving as given
Under(fails, singular) == [G EXCEPT !.xform_fails = fails, !.singular_inverse = singular]

FeedCalibPoses == FeedFrom({1, 19, 7})

CalibrateScene ==
    \E fails \in BOOLEAN :
        /\ Becomes(calibrate(Under(fails, "raise")))
        /\ Ran("calibrate")
        /\ UNCHANGED now

\* _calibrate_from_incoming(sample), as the /calib handlers call it
CalibrateFromIncoming ==
    \E sample \in CalibSamples, fails \in BOOLEAN, singular \in SingularOutcomes :
        /\ Becomes(_calibrate_from_incoming(Under(fails, singular), sample))
        /\ Ran("_calibrate_from_incoming")
        /\ UNCHANGED now

CalibNext ==
    /\ \/ Tick
       \/ FeedCalibPoses
       \/ CalibrateScene
       \/ CalibrateFromIncoming
       \/ ResetCalibration
    /\ UNCHANGED pure

SpecCalib == Init /\ [][CalibNext]_vars

\* the pose a calibration in the current state takes as desired
Desired == IF PENDING_CALIB_DESIRED # None THEN PENDING_CALIB_DESIRED ELSE camera

\* C12: _calibrate_from_incoming takes the pending desired pose when calibrate()
\* stored one and clears it, and takes the camera's current matrix when none is
\* pending: after any call nothing is pending, so of two calls in a row the
\* second computes its calibration from the camera's matrix, never from the
\* pose that was requested before the first.
PendingUsedOnce ==
    /\ \A sample \in CalibSamples, fails \in BOOLEAN, singular \in SingularOutcomes :
           _calibrate_from_incoming(Under(fails, singular), sample).PENDING_CALIB_DESIRED = None
    /\ \A sample \in RigidSamples, again \in RigidSamples :
           LET first == _calibrate_from_incoming(G, sample)
               second == _calibrate_from_incoming(first, again)
           IN  /\ first.CALIB_MATRIX = MatMul(Desired, Inverse(sample))
               /\ first.camera = camera
               /\ second.CALIB_MATRIX = MatMul(camera, Inverse(again))

\* a calibration was computed from the pending pose (1, 2, 3) after the camera
\* had moved on to the turned pose
PendingUsedOnceWitness ==
    /\ op = "_calibrate_from_incoming"
    /\ PENDING_CALIB_DESIRED = None
    /\ camera = WithTranslation(QuarterTurn, <<0, 0, 1>>)
    /\ CALIB_MATRIX = MatMul(Translate(1, 2, 3), Inverse(WithTranslation(QuarterTurn, <<0, 0, 1>>)))

\* C13: calibrate() only stores the camera's current matrix as the pending
\* target (and stores nothing when the camera cannot be queried): the live
\* calibration, the target, the last output pose, the counters and the sink are
\* as before, and a pose processed after the request, by the packet handler or
\* by a pass of the interpolation thread, reaches the sink as it would have
\* without the request, composed with the calibration that was live before it.
RequestOnlyStores ==
    \A fails \in BOOLEAN :
        LET before == Under(fails, "raise")
            after == calibrate(before)
        IN  /\ after = [before EXCEPT !.PENDING_CALIB_DESIRED =
                                          IF fails THEN PENDING_CALIB_DESIRED ELSE camera]
            /\ \A id \in PacketIds, from_batch \in BOOLEAN :
                   IsPose(PACKETS[id]) =>
                       /\ _process_packet(after, PACKETS[id], from_batch).out
                              = _process_packet(before, PACKETS[id], from_batch).out
                       /\ _process_packet(after, PACKETS[id], from_batch).CALIB_MATRIX
                              = CALIB_MATRIX
            /\ \A i \in 1..MaxThreads :
                   interp[i].pc = "tick" =>
                       InterpStep(after, interp[i].tgt).out = InterpStep(before, interp[i].tgt).out

\* a pose went to the sink through the live calibration while a request was
\* pending: the camera is no longer where it was when the request stored it
RequestOnlyStoresWitness ==
    /\ op = "_process_packet"
    /\ PENDING_CALIB_DESIRED # None
    /\ CALIB_MATRIX # None
    /\ camera # PENDING_CALIB_DESIRED
    /\ camera = MatMul(CALIB_MATRIX, Translate(1, 2, 3))

\* the call is one the calibration cannot be computed for: the sample has no
\* inverse, or nothing is pending and the camera cannot be queried
CannotCalibrate(sample, fails) ==
    ~Invertible(sample) \/ (fails /\ PENDING_CALIB_DESIRED = None)

\* C14: when _calibrate_from_incoming is given a sample without inverse, or
\* cannot query the camera, CALIB_MATRIX after the call is CALIB_MATRIX before it.
FailedCalibrationKeepsLive ==
    \A sample \in CalibSamples, fails \in BOOLEAN, singular \in SingularOutcomes :
        CannotCalibrate(sample, fails) =>
            _calibrate_from_incoming(Under(fails, singular), sample).CALIB_MATRIX = CALIB_MATRIX

\* C15: _calibrate_from_incoming given a sample without inverse ends in an
\* error its caller can tell from a successful calibration.  The function
\* returns None on every path, so the only such outcome is an exception
\* leaving it.
SingularSampleFailsExplicitly ==
    \A sample \in SingularSamples, fails \in BOOLEAN, singular \in SingularOutcomes :
        _calibrate_from_incoming(Under(fails, singular), sample).raised

\* C16: for every rigid sample S and desired pose D (the pending target, or the
\* camera's matrix when none is pending), _calibrate_from_incoming(S) leaves a
\* calibration C with C * S = D, and a pose packet carrying S that is accepted
\* right after it under 'none' reaches the sink as D.
RoundTrip ==
    \A sample \in RigidSamples :
        LET c == _calibrate_from_incoming(G, sample)
        IN  /\ MatMul(c.CALIB_MATRIX, sample) = Desired
            /\ SMOOTH_MODE = "none" =>
                   \A from_batch \in BOOLEAN :
                       LET s == _process_packet(c, PosePacket(sample), from_batch)
                       IN  IF s.RECEIVED_FRAMES = RECEIVED_FRAMES + 1
                           THEN s.out = <<Desired>> /\ s.camera = Desired
                           ELSE s.out = <<>> /\ ~from_batch

\* the pose (1, 2, 3) arrived at the sink as the identity, through the
\* calibration (-1, -2, -3) computed from that sample
RoundTripWitness ==
    /\ op = "_process_packet"
    /\ SMOOTH_MODE = "none"
    /\ RECEIVED_FRAMES = 2 /\ LAST_RECEIVE_TIME = now
    /\ CALIB_MATRIX = Translate(-1, -2, -3)
    /\ camera = Identity

(* ------------------------------- the threads --------------------------- *)
\* the interpolation threads that have been started and have not returned
Alive == {i \in 1..MaxThreads : interp[i].pc # "none"}

\* an interpolation thread goes from the top of its loop into a pass
StartsPass(i) == interp[i].pc = "top" /\ interp'[i].pc = "tick"

\* C17: whatever the order of start, stop, restart and accepted packets (a stop
\* whose join timed out followed by a start included), at most one
\* interpolation thread is alive, and a thread that a stop has let go of (it is
\* no longer the session's INTERP_THREAD) starts no further pass when the run
\* flag is set again.
OneInterpolationTask ==
    /\ [](Cardinality(Alive) <= 1)
    /\ [][\A i \in 1..MaxThreads : StartsPass(i) => i = INTERP_THREAD]_vars

\* an interpolation thread comes to the end of a pass: it has pushed its pose
\* and goes to the sleep that ends the pass
EndsPass(i) == interp[i].pc = "tick" /\ interp'[i].pc = "top"

\* C18: an interpolation thread is alive only while SMOOTH_MODE is
\* 'matrix_interp', and once the mode is another one no pass of an interpolation
\* thread pushes a pose to the sink or changes LAST_MATRIX.
InterpOnlyUnderSplit ==
    /\ [](Alive # {} => SMOOTH_MODE = "matrix_interp")
    /\ [][\A i \in 1..MaxThreads :
            (SMOOTH_MODE # "matrix_interp" /\ EndsPass(i)) =>
                (camera' = camera /\ LAST_MATRIX' = LAST_MATRIX)]_vars

\* C19: once the run flag is cleared no interpolation thread completes a pass:
\* it pushes no further pose to the sink and does not go to another sleep
\* before it leaves its loop.
StopIsObserved ==
    [][\A i \in 1..MaxThreads : ~(~INTERP_RUNNING /\ EndsPass(i))]_vars

\* stop_server has returned and the server has not been started again
Stopped == ~SERVER_RUNNING /\ sessions > 0

\* C20: from the return of stop_server to the next start the received and
\* dropped counters are 0 and TARGET_MATRIX is None, whatever the receive thread
\* was doing when the stop came.
StoppedStaysReset ==
    Stopped => (RECEIVED_FRAMES = 0 /\ DROPPED_FRAMES = 0 /\ TARGET_MATRIX = None)

(* ------------------------- scenario: one stop -------------------------- *)
\* One session under 'matrix_interp': it is started once and stopped while a
\* peer sends poses.  The receive thread polls with select(..., 0.05) on a
\* non-blocking socket, so its next step is never waited for: it is taken.
StartFirst == sessions = 0 /\ UiStartLife

StopNext ==
    /\ \/ SendLife
       \/ ServerTake
       \/ ServerHand
       \/ ServerExit
       \/ StartFirst
       \/ StopServer
       \/ InterpRead
       \/ InterpTick
       \/ InterpExit
    /\ UNCHANGED pure

ReceiveThreadStep == (ServerHand \/ ServerExit) /\ UNCHANGED pure

SpecStop == Init /\ [][StopNext]_vars /\ WF_vars(ReceiveThreadStep)

\* what stop_server leaves when it returns
StopReleases ==
    SERVER_RUNNING =>
        \A joined \in BOOLEAN :
            LET s == stop_server(G, joined)
            IN  /\ ~s.SERVER_RUNNING
                /\ s.SERVER_SOCKET = ClosedSocket
                /\ ~s.INTERP_RUNNING /\ s.INTERP_THREAD = 0
                /\ s.interp = Join(interp, INTERP_THREAD, joined)

\* C21: when stop_server returns the run flag is cleared, the interpolation
\* thread has been joined (with a timeout: joined or not, the handle is dropped)
\* and the socket is closed; and from then on the receive thread leaves its
\* loop, whether or not another datagram arrives: it hands over at most the
\* batch it holds, takes no further datagram and ends.
StopCompletes ==
    /\ []StopReleases
    /\ [][Stopped => (receiving' = receiving \/ receiving' = <<>>)]_vars
    /\ (Stopped /\ SERVER_THREAD = "running") ~> (SERVER_THREAD = "exited")

\* the session was stopped while its receive thread held a batch; the thread
\* has handed it over and ended, and the socket is closed
StopCompletesWitness ==
    /\ Stopped
    /\ SERVER_THREAD = "exited"
    /\ SERVER_SOCKET = ClosedSocket
    /\ RECEIVED_FRAMES = 1

(* ---------------------- scenario: stop and start again ----------------- *)
\* Sessions follow one another: the window starts one under the elementwise
\* blend or the alpha-beta filter, stop_server ends it, and start_server alone
\* or the window starts the next.  The host feeds poses and a calibration
\* sample in between.
FeedSession == FeedFrom({1, 7, 19})
UiStartSession ==
    UiStartWith({"matrix_exp", "alpha_beta"}, {MIN_UPDATE_INTERVAL_INIT}, {MAX_BATCH_READ_INIT})

SessionNext ==
    /\ \/ Tick
       \/ FeedSession
       \/ UiStartSession
       \/ StartServer
       \/ StopServer
       \/ ServerExit
    /\ UNCHANGED pure

SpecSession == Init /\ [][SessionNext]_vars

\* a step in which stop_server ends a session, and one in which start_server
\* or _ui_start begins the next
Stops == SERVER_RUNNING /\ ~SERVER_RUNNING'
Resumes == ~SERVER_RUNNING /\ SERVER_RUNNING' /\ sessions > 0

\* C24: when stop_server returns there is no calibration, so that no pose of
\* the next session is offset by the calibration of the one before.
StopClearsCalibration == [][Stops => CALIB_MATRIX' = None]_vars

\* C25: the last output pose is kept across a stop and the start that follows:
\* under a strategy that keeps one (the elementwise blend and the split
\* interpolation write LAST_MATRIX), neither stop_server nor start_server
\* replaces it.
LastPosePreserved ==
    [][(Stops \/ Resumes) /\ SMOOTH_MODE \in {"matrix_exp", "matrix_interp"}
           /\ SMOOTH_MODE' = SMOOTH_MODE
       => LAST_MATRIX' = LAST_MATRIX]_vars

\* the state a predictive strategy starts from
CleanFilters == <<NewFilter, NewFilter, NewFilter>>

\* C26: when stop_server returns, the alpha-beta filters are back to their
\* initial state and no last quaternion is kept, so a session started by
\* start_server alone filters its first pose from clean state.
StopResetsSmoothing ==
    [][Stops => POS_FILTERS' = CleanFilters /\ LAST_QUAT' = None]_vars

\* strategy-local state as a start leaves it: clean filters, no last
\* quaternion, no target, and a last output pose that is absent or seeded
FreshFor(s, seed) ==
    [s EXCEPT !.POS_FILTERS = CleanFilters, !.LAST_QUAT = None,
              !.LAST_MATRIX = seed, !.TARGET_MATRIX = None]

\* the poses the handler pushes for the first sample after the window has
\* switched a running session to mode
FirstAfterSwitch(mode, id) ==
    _process_packet(_ui_start(G, mode, MIN_UPDATE_INTERVAL, MAX_BATCH_READ),
                    PACKETS[id], FALSE).out

FirstFromFresh(mode, id, seed) ==
    LET s == _ui_start(G, mode, MIN_UPDATE_INTERVAL, MAX_BATCH_READ)
    IN  _process_packet(FreshFor(s, seed), PACKETS[id], FALSE).out

\* C27: when the strategy of a running session is switched, the first sample
\* the new strategy processes is processed from reset state: what it pushes
\* is what it would push with clean filters, no last quaternion and a last
\* output pose that is absent or seeded from the camera.
SwitchResets ==
    SERVER_RUNNING =>
        \A mode \in Modes \ {SMOOTH_MODE} : \A id \in ValidPoseIds :
            \E seed \in {None, camera} :
                FirstAfterSwitch(mode, id) = FirstFromFresh(mode, id, seed)

\* payloads that carry no message: bytes that json.loads(data.decode('utf8'))
\* refuses, a JSON value that is no object, a pose or calib without a matrix
MalformedIds ==
    {id \in PacketIds :
        \/ PACKETS[id].raw \in {"garbage", "empty", "nonobject"}
        \/ /\ PACKETS[id].raw = "json"
           /\ PACKETS[id].type \in {"pose", "absent", "calib"}
           /\ PACKETS[id].matrix = None}

\* C30: a malformed payload changes nothing: not the two counters, the time
\* of the last accepted pose, the target, the last output or the calibration,
\* nor anything else; nothing is pushed and no exception leaves
\* _process_packet, on the direct path and on the batch path.
MalformedIgnored ==
    /\ {5, 12, 13, 15, 21} \subseteq MalformedIds
    /\ \A id \in MalformedIds : \A from_batch \in BOOLEAN :
           /\ _process_packet(G, PACKETS[id], from_batch) = G
           /\ ~ProcessTry(G, PACKETS[id], from_batch).raised
                  => PACKETS[id].raw = "json"

\* a running session with a calibration, an accepted pose and a clock that
\* has moved on since: the state in which _process_packet, fed the garbage
\* packet, leaves all of them as they were
MalformedIgnoredWitness ==
    /\ op = "_process_packet"
    /\ SERVER_RUNNING
    /\ CALIB_MATRIX # None
    /\ RECEIVED_FRAMES = 1 /\ DROPPED_FRAMES = 0
    /\ now > LAST_RECEIVE_TIME

(* ------------------------- the OSC handlers ---------------------------- *)
\* The handlers start_server maps to /pose, /calib, /pose_bin and /calib_bin
\* when use_osc is set; vals is the list of floats of the message (for the
\* binary addresses, what struct.unpack('!16f', blob) yields: 16 of them, or
\* an error that the handler prints).
_osc_pose_handler(s, vals) ==
    IF Len(vals) >= 16 THEN _apply_matrix_to_camera(s, SubSeq(vals, 1, 16))
    ELSE s

_osc_calib_handler(s, vals) ==
    IF Len(vals) >= 16 THEN _calibrate_from_incoming(s, SubSeq(vals, 1, 16))
    ELSE s

_osc_pose_bin(s, vals) ==
    IF Len(vals) = 16 THEN _apply_matrix_to_camera(s, vals)
    ELSE s

_osc_calib_bin(s, vals) ==
    IF Len(vals) = 16 THEN _calibrate_from_incoming(s, vals)
    ELSE s

\* the same sample as a JSON message of the primary transport
AsJson(s, type, vals) ==
    _process_packet(s, Packet("json", type, ToWire(vals), ""), FALSE)

\* samples of 16 numbers: one valid, one with its translation over the bound
OscSamples == {Translate(1, 2, 3), Floats(TooFar)}

\* C28: a sample that arrives at an OSC address goes the way of the same
\* sample in a JSON message: what is pushed, the target, the calibration and
\* the two counters come out the same, so that a sample the validator refuses
\* reaches neither the strategy, the camera nor the calibration.
OscAsJson ==
    SERVER_RUNNING =>
        \A vals \in OscSamples :
            /\ _osc_pose_handler(G, vals) = AsJson(G, "pose", vals)
            /\ _osc_pose_bin(G, vals) = AsJson(G, "pose", vals)
            /\ _osc_calib_handler(G, vals) = AsJson(G, "calib", vals)
            /\ _osc_calib_bin(G, vals) = AsJson(G, "calib", vals)

\* start_server finding the port taken, and a later call finding it free
BindFailed == start_server([G EXCEPT !.bind_fails = TRUE])
LaterStart == start_server([BindFailed EXCEPT !.bind_fails = FALSE, !.raised = FALSE])

UnderTargetLock(name) ==
    IF name \in {"_process_packet", "_server_loop"} THEN {"TARGET_MATRIX"} ELSE {}

\* the shared pose state a step writes
PoseWritten ==
    (IF TARGET_MATRIX' # TARGET_MATRIX THEN {"TARGET_MATRIX"} ELSE {})
    \cup (IF LAST_MATRIX' # LAST_MATRIX THEN {"LAST_MATRIX"} ELSE {})
    \cup (IF POS_FILTERS' # POS_FILTERS THEN {"POS_FILTERS"} ELSE {})
    \cup (IF LAST_QUAT' # LAST_QUAT THEN {"LAST_QUAT"} ELSE {})

\* C22: while the receive thread or an interpolation thread is alive, every
\* write of the target pose, the last output pose and the filter state is made
\* by a statement that holds TARGET_LOCK.
PoseStateLocked ==
    [][(SERVER_THREAD = "running" \/ Alive # {}) => PoseWritten \subseteq UnderTargetLock(op')]_vars

(* ------------- scenario: the window's Start during a session ----------- *)
\* A session runs and a peer sends poses while Start is pressed again with
\* another mode and another batch size; the receive thread runs its cycles
\* whenever the socket is readable, also between two assignments of _ui_start.
ConfigModes == {"none", "matrix_exp"}

UiBegin ==
    \E mode \in ConfigModes, mb \in 1..MaxBatchCfg :
        /\ ui = <<>>
        /\ Becomes(UiAssignMode(G, mode, MIN_UPDATE_INTERVAL_INIT, mb))
        /\ Ran("_ui_start")
        /\ UNCHANGED now

UiFinish ==
    /\ ui # <<>>
    /\ Becomes(UiAssignRest(G))
    /\ Ran("_ui_start")
    /\ UNCHANGED now

SendConfig == SendFrom({1, 19})

ConfigNext ==
    /\ \/ Tick
       \/ UiBegin
       \/ UiFinish
       \/ SendConfig
       \/ ServerCycle
    /\ UNCHANGED pure

SpecConfig == Init /\ [][ConfigNext]_vars

\* the configuration fields, as a thread finds them
ConfigNow == <<SMOOTH_MODE, MIN_UPDATE_INTERVAL, MAX_BATCH_READ>>

\* what _ui_start is about to leave
ConfigNew == <<ui.mode, ui.min_interval, Max2(1, ui.max_batch)>>

\* a cycle of the receive thread that accepts a batch pose: it has read
\* MAX_BATCH_READ for its batch and SMOOTH_MODE for the strategy
CycleAccepts ==
    /\ op' = "_server_loop"
    /\ Len(SERVER_SOCKET'.buf) < Len(SERVER_SOCKET.buf)
    /\ RECEIVED_FRAMES' = RECEIVED_FRAMES + 1

\* C23: when the configuration is changed during a session, every step of a
\* worker finds the configuration the change started from or the one it ends
\* with, never fields of both.
ConsistentSnapshot ==
    [][CycleAccepts /\ ui # <<>> => ConfigNow \in {ui.was, ConfigNew}]_vars

\* the two parts of _ui_start, run one after the other, are _ui_start
UiPartsAreUiStart ==
    \A mode \in ConfigModes, mb \in 1..MaxBatchCfg :
        ui = <<>> =>
            UiAssignRest(UiAssignMode(G, mode, MIN_UPDATE_INTERVAL_INIT, mb))
                = _ui_start(G, mode, MIN_UPDATE_INTERVAL_INIT, mb)

\* pose and calib messages that are refused for their matrix: one that is
\* present without 16 entries, and a calib matrix of 16 that fails validation
WrongLengthIds ==
    {id \in PacketIds :
        /\ PACKETS[id].raw = "json" /\ PACKETS[id].type \in {"pose", "absent", "calib"}
        /\ PACKETS[id].matrix # None /\ Len(PACKETS[id].matrix) # 16}
RefusedCalibIds ==
    {id \in PacketIds :
        /\ PACKETS[id].raw = "json" /\ PACKETS[id].type = "calib"
        /\ HasMatrix16(PACKETS[id]) /\ ~_validate_matrix(PACKETS[id].matrix)}

\* C31: every pose or calib message refused for its matrix is counted: the
\* dropped counter goes up by one for a matrix that has not 16 entries and
\* for a calib matrix that fails validation.
RejectionsCounted ==
    /\ 6 \in WrongLengthIds /\ 8 \in RefusedCalibIds
    /\ \A id \in WrongLengthIds \cup RefusedCalibIds : \A from_batch \in BOOLEAN :
           _process_packet(G, PACKETS[id], from_batch).DROPPED_FRAMES = DROPPED_FRAMES + 1

\* the first session runs and has accepted no pose yet
NoTargetYet == SERVER_RUNNING /\ sessions = 1 /\ RECEIVED_FRAMES = 0

ClampAlphas == {<<0, 1>>, <<1, 4>>, <<1, 2>>, <<3, 5>>, <<4, 5>>, <<1, 1>>}
ClampAngles == {0, 1, 9, 10, 11, 45, 46, 60, 90, 91, 120, 179, 180}
ClampCaps == {10, 45, 90, 180}
ClampInputs == {<<a, angle, cap>> : a \in ClampAlphas, angle \in ClampAngles, cap \in ClampCaps}

InitClamp ==
    /\ InitSession
    /\ vm \in ClampInputs
    /\ vres = <<>>

\* the clamp is evaluated for a_rot = vm[1], angle = vm[2], cap = vm[3]
Clamp ==
    /\ vres = <<>>
    /\ vres' = EffectiveFraction(vm[1], vm[2], vm[3])
    /\ UNCHANGED <<globals, now, trace, vm>>

SpecClamp == InitClamp /\ [][Clamp]_vars

\* C33: the fraction applied in a tick times the angle between prior and
\* target orientation is at most the configured cap, for every alpha and
\* every pair of orientations.
ClampBoundsChange ==
    vres # <<>> => vres[1] * vm[2] <= vm[3] * vres[2]

\* the clamp has acted on an angle beyond the cap with an alpha that alone
\* would have turned the pose by more than the cap
ClampBoundsChangeWitness ==
    /\ vres # <<>>
    /\ vm[2] > vm[3]
    /\ vm[1][1] * vm[2] > vm[3] * vm[1][2]

\* stated as in the claim C34: beyond the cap the fraction used is strictly
\* below the configured alpha
ClampStrictlyBelowAlpha ==
    (vres # <<>> /\ vm[2] > vm[3]) => FracLess(vres, vm[1])

\* C34 (amended): beyond the cap the fraction used is min(alpha, cap / angle):
\* never above the configured alpha, and strictly below it exactly when alpha
\* times the angle exceeds the cap; otherwise it is the alpha itself.
ClampIsMin ==
    (vres # <<>> /\ vm[2] > vm[3]) =>
        /\ ~FracLess(vm[1], vres)
        /\ FracLess(vres, vm[1]) <=> vm[1][1] * vm[2] > vm[3] * vm[1][2]
        /\ ~FracLess(vres, vm[1]) => vres = vm[1]

\* beyond the cap, an alpha that keeps the change within the cap is used as is
ClampIsMinWitness ==
    /\ vres # <<>>
    /\ vm[2] > vm[3]
    /\ vm[1][1] * vm[2] <= vm[3] * vm[1][2]
    /\ vm[1][1] > 0
    /\ vres = vm[1]

(* -------------- scenario: the quaternion sum of a batch ---------------- *)
\* The summation of _server_loop on its own, on batches of one to three
\* quaternions of one norm (5, so that the components are whole numbers),
\* each met in both signs.
BatchQuats ==
    LET half == {<<5, 0, 0, 0>>, <<0, 0, 0, 5>>, <<4, 2, 2, 1>>, <<1, 2, 2, 4>>,
                 <<0, 3, 4, 0>>, <<2, -4, 1, 2>>}
    IN  half \cup {QNeg(q) : q \in half}
Batches ==
    UNION {[1..n -> BatchQuats] : n \in 1..3}

InitBatch ==
    /\ InitSession
    /\ vm \in Batches
    /\ vres = <<>>

\* the loop over the batch vm has run: the terms it added, and quat_sum
SumBatch ==
    /\ vres = <<>>
    /\ vres' = LET terms == SummedTerms(vm) IN <<terms, QuatSum(terms)>>
    /\ UNCHANGED <<globals, now, trace, vm>>

SpecBatch == InitBatch /\ [][SumBatch]_vars

\* every quaternion of the batch is the reference or its opposite
OneRotation(qs) == \A i \in 1..Len(qs) : qs[i] = qs[1] \/ qs[i] = QNeg(qs[1])

\* C35: a quaternion after the first is negated before it is summed exactly
\* when its dot product with the reference is negative, so every summed term
\* has a non-negative dot product with the reference; a batch of q and -q
\* representations of one rotation sums to n times the reference (magnitude
\* n), and the two matrices of (1,0,0,0) and (-1,0,0,0) sum to more than 1.9.
BatchSignCorrected ==
    /\ vres # <<>> =>
           /\ vres[1][1] = vm[1]
           /\ \A i \in 2..Len(vm) :
                  vres[1][i] = IF QDot(vm[i], vm[1]) < 0 THEN QNeg(vm[i]) ELSE vm[i]
           /\ \A i \in 1..Len(vm) : QDot(vres[1][i], vm[1]) >= 0
           /\ vres[2] = [k \in 1..4 |-> SumSeq([i \in 1..Len(vm) |-> vres[1][i][k]])]
           /\ OneRotation(vm) =>
                  /\ vres[2] = [k \in 1..4 |-> Len(vm) * vm[1][k]]
                  /\ QDot(vres[2], vres[2]) = Len(vm) * Len(vm) * QDot(vm[1], vm[1])
    /\ QuatSum(SummedTerms(<<_mat_to_quat(_quat_to_mat(<<1, 0, 0, 0>>)),
                             _mat_to_quat(_quat_to_mat(<<-1, 0, 0, 0>>))>>))[1] >= 2

\* a batch of three holding q and -q of one rotation has been summed
BatchSignCorrectedWitness ==
    /\ vres # <<>>
    /\ Len(vm) = 3
    /\ OneRotation(vm)
    /\ vm[2] = QNeg(vm[1])
    /\ vm[3] = vm[1]

(* ------------- scenario: quaternion to matrix and back ----------------- *)
\* The two helpers on their own, on every quaternion of whole components and
\* norm d for d in 1, 2, 3, 5: unit quaternions in units of 1/d, on which the
\* fixed-point helpers are exact.
UnitQuats(d) == {q \in (-d..d) \X (-d..d) \X (-d..d) \X (-d..d) : QDot(q, q) = d * d}
RoundInputs == UNION {{<<d, q>> : q \in UnitQuats(d)} : d \in {1, 2, 3, 5}}

InitRound ==
    /\ InitSession
    /\ vm \in RoundInputs
    /\ vres = <<>>

\* R = _quat_to_mat(q), then q2 = _mat_to_quat(R), then R2 = _quat_to_mat(q2)
QuatMatQuat ==
    /\ vres = <<>>
    /\ vres' = LET R == QuatToMatAt(vm[1], vm[2])
                   q2 == MatToQuatAt(vm[1], R)
               IN  <<R, q2, QuatToMatAt(vm[1], q2)>>
    /\ UNCHANGED <<globals, now, trace, vm>>

SpecRound == InitRound /\ [][QuatMatQuat]_vars

\* C36: for a unit quaternion q, whichever of the four cases its matrix takes,
\* _mat_to_quat(_quat_to_mat(q)) is q or -q, and _quat_to_mat of the result
\* is the rotation matrix again; every one of the four cases is met.
QuatRoundTrip ==
    /\ vres # <<>> =>
           /\ vres[2] = vm[2] \/ vres[2] = QNeg(vm[2])
           /\ vres[3] = vres[1]
    /\ \A b \in 1..4 : \E x \in RoundInputs : Branch(QuatToMatAt(x[1], x[2])) = b

\* a quaternion with four non-zero components whose matrix takes the case of
\* a dominant m00 has gone round
QuatRoundTripWitness ==
    /\ vres # <<>>
    /\ \A k \in 1..4 : vm[2][k] # 0
    /\ Branch(vres[1]) = 2
    /\ vres[2] = QNeg(vm[2])

(* --------------------------- scenario: slerp --------------------------- *)
\* _quat_slerp on its own: every pair of unit quaternions of whole components
\* at d = 1 and d = 2, and at d = 45 quaternions one or two units apart, whose
\* dot products 2024/2025 and 2023/2025 lie on either side of 0.9995.
Near45 == {<<42, 1, 2, 16>>, <<42, 2, 1, 16>>, <<42, -1, 2, 16>>,
           <<-42, -2, -1, -16>>, <<-42, 1, -2, -16>>}
SlerpTimes == {<<0, 1>>, <<1, 2>>, <<1, 1>>}
SlerpInputs ==
    UNION {{<<d, a, b, t>> : a \in UnitQuats(d), b \in UnitQuats(d), t \in SlerpTimes} : d \in {1, 2}}
    \cup {<<45, a, b, t>> : a \in Near45, b \in Near45, t \in SlerpTimes}

InitSlerp ==
    /\ InitSession
    /\ vm \in SlerpInputs
    /\ vres = <<>>

\* _quat_slerp(a, b, t) for d = vm[1], a = vm[2], b = vm[3], t = vm[4]: the b
\* it interpolates to, the case it takes and what it returns
Slerp ==
    /\ vres = <<>>
    /\ vres' = <<SlerpTarget(vm[2], vm[3]), SlerpLinear(vm[1], vm[2], vm[3]),
                 SlerpAt(vm[1], vm[2], vm[3], vm[4])>>
    /\ UNCHANGED <<globals, now, trace, vm>>

SpecSlerp == InitSlerp /\ [][Slerp]_vars

\* C37: _quat_slerp(a, a, t) = a, _quat_slerp(a, b, 0) = a and
\* _quat_slerp(a, b, 1) = b up to sign; b is negated before the interpolation
\* exactly when dot(a, b) < 0, and the linear case is taken exactly when
\* |dot(a, b)| > 0.9995.  At unit precision _quat_slerp is this function.
SlerpContract ==
    /\ vres # <<>> =>
           LET d == vm[1]
               a == vm[2]
               b == vm[3]
               t == vm[4]
           IN  /\ a = b => vres[3] = a
               /\ t = <<0, 1>> => vres[3] = a
               /\ t = <<1, 1>> => vres[3] = b \/ vres[3] = QNeg(b)
               /\ vres[1] = IF QDot(a, b) < 0 THEN QNeg(b) ELSE b
               /\ vres[2] <=> Abs(QDot(a, b)) * 10000 > 9995 * d * d
               /\ d = 1 => _quat_slerp(a, b, t) = vres[3]
    /\ \E x \in SlerpInputs : x[2] # x[3] /\ x[2] # QNeg(x[3]) /\ SlerpLinear(x[1], x[2], x[3])

\* a slerp to t = 1 towards a quaternion of the opposite hemisphere, distinct
\* from -a, in the angular case
SlerpContractWitness ==
    /\ vres # <<>>
    /\ vm[4] = <<1, 1>>
    /\ QDot(vm[2], vm[3]) < 0
    /\ vm[3] # QNeg(vm[2])
    /\ ~vres[2]
    /\ vres[3] = QNeg(vm[3])

(* ---------------------- scenario: one AlphaBetaFilter ------------------ *)
\* One filter object on its own: vm holds the object, the clock and the number
\* of updates made; resets and updates come in any order, the updates with
\* measurements far enough apart for the velocity to be other than 0 and 0, 1
\* or 2 ticks after the previous call.
FilterMeasurements == {0, 400, 1000, -600}
FilterResetValues == {None, <<0>>, <<1000>>}

InitFilter ==
    /\ InitSession
    /\ vm = [f |-> NewFilter, t |-> Epoch, n |-> 0]
    /\ vres = <<>>

\* f.reset(value)
FilterResetCall ==
    /\ \E value \in FilterResetValues :
           vm' = [vm EXCEPT !.f = FilterReset(vm.f, value)]
    /\ vres' = <<>>
    /\ UNCHANGED <<globals, now, trace>>

\* f.update(meas, t), d ticks after the previous call; vres keeps the object
\* as it was, the arguments and the value returned
FilterUpdateCall ==
    /\ vm.n < MaxUpdates
    /\ \E meas \in FilterMeasurements, d \in 0..2 :
           LET f2 == FilterUpdate(vm.f, meas, vm.t + d)
           IN  /\ vm' = [f |-> f2, t |-> vm.t + d, n |-> vm.n + 1]
               /\ vres' = [before |-> vm.f, meas |-> meas, t |-> vm.t + d, returned |-> f2.x]
    /\ UNCHANGED <<globals, now, trace>>

FilterNext == FilterResetCall \/ FilterUpdateCall
SpecFilter == InitFilter /\ [][FilterNext]_vars

\* C38: the first update after construction or reset returns the measurement
\* and leaves the velocity 0, whatever the value the filter was reset to; a
\* later update, dt after the previous one, predicts x + v*dt, then adds
\* alpha * residual to x and beta * residual / dt to v and returns x, which is
\* not the predicted estimate when the measurement differs from it.
FilterContract ==
    vres # <<>> =>
        LET f == vres.before
            d == vres.t - f.last_t
        IN  /\ vm.f.x = vres.returned
            /\ vm.f.last_t = vres.t
            /\ f.last_t = NoTime => vres.returned = vres.meas /\ vm.f.v = 0
            /\ f.last_t # NoTime =>
                   LET predicted == f.x + (IF d >= 1 THEN Quot(f.v * d, TICKS_PER_SECOND)
                                           ELSE Quot(f.v, MICRO))
                       residual == vres.meas - predicted
                   IN  /\ vres.returned = predicted + Frac(FILTER_ALPHA, residual)
                       /\ vm.f.v = f.v + (IF d >= 1
                                          THEN Quot(Frac(FILTER_BETA, residual) * TICKS_PER_SECOND, d)
                                          ELSE Frac(FILTER_BETA, residual) * MICRO)
                       /\ residual # 0 => vres.returned # predicted

\* the first update after a reset to a value other than the measurement
FilterContractWitness ==
    /\ vres # <<>>
    /\ vres.before = [x |-> 1000, v |-> 0, last_t |-> NoTime]
    /\ vres.meas = 400
    /\ vm.n > 1

\* a later update of a filter in motion whose prediction is not the estimate
FilterPredictsWitness ==
    /\ vres # <<>>
    /\ vres.before.last_t # NoTime
    /\ vres.before.v # 0
    /\ vres.t > vres.before.last_t

\* a pass of the interpolation thread is about to run under a calibration
CalibratedPassDue ==
    /\ SMOOTH_MODE = "matrix_interp"
    /\ CALIB_MATRIX # None /\ CALIB_MATRIX # Identity
    /\ LAST_MATRIX # None
    /\ \E i \in Alive : interp[i].pc = "tick" /\ ~InterpStep(G, interp[i].tgt).raised

\* C39: in 'matrix_interp' the calibration is applied once to each emitted
\* pose: what a pass pushes is the calibration composed with the pose it
\* interpolated, and what it keeps as the prior state of the next pass is
\* that interpolated pose, without the calibration.
CalibrationAppliedOnce ==
    CalibratedPassDue =>
        \A i \in Alive :
            (interp[i].pc = "tick" /\ ~InterpStep(G, interp[i].tgt).raised) =>
                LET r == InterpStep(G, interp[i].tgt)
                    sm == r.smoothed[Len(r.smoothed)]
                IN  /\ r.out[Len(r.out)] = MatMul(CALIB_MATRIX, sm)
                    /\ r.LAST_MATRIX = sm

(* ------------------------ the stress runner ---------------------------- *)
\* run_stress_and_report.main once the sender has finished: it stops the
\* server, then reads the counters and builds the report; drop_rate is the
\* fraction <<dropped, total>>, or 0 when total is 0.
StressReport(s, joined) ==
    LET stopped == stop_server(s, joined)
        received == stopped.RECEIVED_FRAMES
        dropped == stopped.DROPPED_FRAMES
        total == received + dropped
    IN  [received |-> received, dropped |-> dropped,
         drop_rate |-> IF total > 0 THEN <<dropped, total>> ELSE <<0, 1>>]

\* C40: the report of the stress runner carries the received and dropped counts
\* the receiver accumulated during the run, and its drop_rate is dropped /
\* (received + dropped) over those counts.
ReportCarriesCounts ==
    SERVER_RUNNING =>
        \A joined \in BOOLEAN :
            LET report == StressReport(G, joined)
                total == RECEIVED_FRAMES + DROPPED_FRAMES
            IN  /\ report.received = RECEIVED_FRAMES
                /\ report.dropped = DROPPED_FRAMES
                /\ total > 0 => report.drop_rate = <<DROPPED_FRAMES, total>>

====
